---- MODULE Spec2Model ----
(***************************************************************************)
(* Model of the transaction forensics core of the block-chain-project      *)
(* backend: RiskScorer, PatternMatcher (with its chain finder),            *)
(* GraphAnalyzer.find_main_paths, AnomalyDetector and the analysis API.     *)
(*                                                                         *)
(* Number representation                                                   *)
(*   amounts      integers in milli-units (1.0 ETH = 1000)                 *)
(*   timestamps   integers in seconds                                      *)
(*   confidences  integers in 1/600 (ConfScale), the common denominator of *)
(*                n/20, n/10, n/6, n/5, n/3 and n/200                      *)
(*   scores       integers in 1/100 (ScoreScale), what round(x, 2) keeps   *)
(*   total score  integers in 1/2000 point (TotalScale): the weights are   *)
(*                twentieths and the sub-scores hundredths                 *)
(***************************************************************************)
EXTENDS Integers, Sequences, FiniteSets, TLC

VARIABLES
    pc,                 \* position of the modelled call
    address,            \* target address of the call
    transactions,       \* the transaction list passed to the call
    detected_patterns,  \* pattern matches passed to / produced for the call
    detected_anomalies, \* anomalies passed to / produced for the call
    now,                \* what datetime.utcnow() returns during the call
    risk_assessment,    \* result of RiskScorer.calculate_risk_score
    max_hops,           \* max_hops argument of the chain enumeration
    max_paths,          \* max_paths argument of find_main_paths
    queue,              \* work queue of the chain enumeration
    chains,             \* chains / paths collected so far
    visited_paths,      \* find_main_paths: signatures already expanded
    explored,           \* number of chains taken from the work queue
    second_run,         \* result of a second call with identical arguments
    api_response,       \* response of the API entry point
    language,           \* language of the API request
    raised,             \* the calls that ended by raising an exception
    calls,              \* the components the API handler has invoked
    amount_anomalies,   \* detect_anomalies: result of the amount test
    timeline,           \* result of TimelineAnalyzer.analyze_timeline
    minute_requests,    \* RateLimitMiddleware: admission times of the last minute
    hour_requests,      \* RateLimitMiddleware: admission times of the last hour
    dispatch_log,       \* every dispatch call so far: client, time, admitted or not
    in_flight           \* admitted requests whose call_next has not returned

vars == <<pc, address, transactions, detected_patterns, detected_anomalies,
          now, risk_assessment, max_hops, max_paths, queue, chains,
          visited_paths, explored, second_run, api_response, language,
          raised, calls, amount_anomalies, timeline, minute_requests,
          hour_requests, dispatch_log, in_flight>>

-----------------------------------------------------------------------------
(* Bounds of the model *)

MaxTxs == 2
MaxPatterns == 2
MaxAnomalies == 2

-----------------------------------------------------------------------------
(* Arithmetic helpers *)

ValueScale == 1000
ConfScale == 600
ScoreScale == 100
TotalScale == 2000
Day == 86400
Hour == 3600

\* min(x, cap) with the cap left out
MinUncapped(a, b) == a

Min(a, b) == IF a < b THEN a ELSE b

Max(a, b) == IF a > b THEN a ELSE b

\* floor(x / d) for possibly negative x, as timedelta.days does
FloorDiv(x, d) == IF x >= 0 THEN x \div d ELSE -((-x + d - 1) \div d)

\* Truncation instead of rounding to the nearest
RoundTowardZero(num, den) == num \div den

\* round(num / den) to the nearest integer, ties to even (Python's round)
RoundHalfEven(num, den) ==
    LET q == num \div den
        r == num % den
    IN  IF 2 * r < den THEN q
        ELSE IF 2 * r > den THEN q + 1
        ELSE IF q % 2 = 0 THEN q ELSE q + 1

RECURSIVE SumSeq(_)
SumSeq(s) == IF s = <<>> THEN 0 ELSE Head(s) + SumSeq(Tail(s))

\* [f(x) for x in s]
MapSeq(s, f(_)) == [i \in 1..Len(s) |-> f(s[i])]

\* [x for x in s if p(x)]
FilterSeq(s, p(_)) == SelectSeq(s, p)

\* s[:n]
Take(s, n) == SubSeq(s, 1, Min(n, Len(s)))

Range(s) == {s[i] : i \in 1..Len(s)}

SeqsUpTo(S, n) == UNION {[1..k -> S] : k \in 0..n}

-----------------------------------------------------------------------------
(* Addresses and str.lower() *)

TornadoA == "0xd90e2f925DA726b50C4Ed8D0Fb90Ad053324F31b"
TornadoB == "0x47CE0C6eD5B0Ce3d3A51fdb1C52DC66a7c3c2936"

TornadoALower == "0xd90e2f925da726b50c4ed8d0fb90ad053324f31b"
TornadoBLower == "0x47ce0c6ed5b0ce3d3a51fdb1c52dc66a7c3c2936"

\* Node addresses for chains, written in lower and in upper case
LowerNodes == <<"0xn0", "0xn1", "0xn2", "0xn3", "0xn4", "0xn5", "0xn6", "0xn7", "0xn8">>
UpperNodes == <<"0xN0", "0xN1", "0xN2", "0xN3", "0xN4", "0xN5", "0xN6", "0xN7", "0xN8">>

\* Recipient addresses
Recipients ==
    <<"0xr01", "0xr02", "0xr03", "0xr04", "0xr05", "0xr06", "0xr07", "0xr08",
      "0xr09", "0xr10", "0xr11", "0xr12", "0xr13", "0xr14", "0xr15", "0xr16">>

\* str.lower() on the addresses of the model: the ones that carry
\* upper-case letters change, every other one is already lower case
lower(a) ==
    IF \E i \in 1..Len(UpperNodes) : UpperNodes[i] = a
    THEN LowerNodes[CHOOSE i \in 1..Len(UpperNodes) : UpperNodes[i] = a]
    ELSE CASE a = TornadoA -> TornadoALower
           [] a = TornadoB -> TornadoBLower
           [] a = "0xAAA" -> "0xaaa"
           [] OTHER -> a

\* One transaction record.  ts_form is the Python type of the timestamp:
\* "datetime" (naive datetime, as EtherscanClient builds it), "iso_z"
\* (ISO-8601 string ending in Z, as the tests and the input contract give it)
\* or "missing" (the dictionary has no "timestamp" key; the timestamp field
\* is then NoTimestamp, which orders like the default sort key "").
NoTimestamp == -1

Tx(h, f, t, v, ts, form) ==
    [hash |-> h, from |-> f, to |-> t, value |-> v, timestamp |-> ts,
     ts_form |-> form]

-----------------------------------------------------------------------------
(* RiskScorer  (src/backend/app/services/ml/risk_scorer.py) *)

\* self.weights, in twentieths
weights ==
    [pattern_risk |-> 7, anomaly_risk |-> 5, counterparty_risk |-> 4,
     volume_risk |-> 2, age_risk |-> 2]

\* The weight table with "critical" weighted like "high"
RiskWeightsCriticalAsHigh(level) ==
    CASE level = "critical" -> 3
      [] level = "high" -> 3
      [] level = "medium" -> 2
      [] level = "low" -> 1
      [] OTHER -> 2

\* risk_weights / severity_weights in quarters, .get(level, 0.5)
risk_weights(level) ==
    CASE level = "critical" -> 4
      [] level = "high" -> 3
      [] level = "medium" -> 2
      [] level = "low" -> 1
      [] OTHER -> 2

\* _calculate_pattern_risk: round(min(sum(weight * confidence) * 50, 100), 2)
calculate_pattern_risk(patterns) ==
    IF patterns = <<>> THEN 0
    ELSE LET total_risk ==
                 SumSeq([i \in 1..Len(patterns) |->
                     risk_weights(patterns[i].risk_level)
                         * patterns[i].confidence])
         IN  \* total_risk is in 1/(4*ConfScale); * 50, in hundredths
             IF total_risk * 50 >= 100 * 4 * ConfScale THEN 100 * ScoreScale
             ELSE RoundHalfEven(total_risk * 50 * ScoreScale, 4 * ConfScale)

\* _calculate_anomaly_risk: round(min(sum(severity weight) * 30, 100), 2)
calculate_anomaly_risk(anomalies) ==
    IF anomalies = <<>> THEN 0
    ELSE LET total_risk ==
                 SumSeq([i \in 1..Len(anomalies) |->
                     risk_weights(anomalies[i].severity)])
         IN  IF total_risk * 30 >= 100 * 4 THEN 100 * ScoreScale
             ELSE RoundHalfEven(total_risk * 30 * ScoreScale, 4)

known_high_risk == {TornadoA, TornadoB}

\* _calculate_counterparty_risk: the lower-cased endpoints are looked up in
\* the set of addresses as written (mixed case)
calculate_counterparty_risk(txs) ==
    IF txs = <<>> THEN 0
    ELSE LET touching(tx) == lower(tx.from) \in known_high_risk
                             \/ lower(tx.to) \in known_high_risk
             high_risk_interactions == Len(FilterSeq(txs, touching))
             total_interactions == Len(txs)
         IN  RoundHalfEven(high_risk_interactions * 100 * ScoreScale,
                           total_interactions)

\* _calculate_volume_risk
calculate_volume_risk(txs) ==
    IF txs = <<>> THEN 0
    ELSE LET total_volume == SumSeq([i \in 1..Len(txs) |-> txs[i].value])
             transaction_count == Len(txs)
             volume_risk ==
                 IF total_volume > 1000 * ValueScale THEN 80
                 ELSE IF total_volume > 100 * ValueScale THEN 60
                 ELSE IF total_volume > 10 * ValueScale THEN 40
                 ELSE IF total_volume > 1 * ValueScale THEN 20
                 ELSE 10
         IN  IF transaction_count > 1000
             THEN Min(volume_risk * 12 * (ScoreScale \div 10), 100 * ScoreScale)
             ELSE IF transaction_count > 100
             THEN Min(volume_risk * 11 * (ScoreScale \div 10), 100 * ScoreScale)
             ELSE volume_risk * ScoreScale

\* min / max of the timestamps: sorted(..., key=timestamp)[0] and [-1]
MinTs(txs) == CHOOSE t \in {txs[i].timestamp : i \in 1..Len(txs)} :
                  \A i \in 1..Len(txs) : t <= txs[i].timestamp

MaxTs(txs) == CHOOSE t \in {txs[i].timestamp : i \in 1..Len(txs)} :
                  \A i \in 1..Len(txs) : t >= txs[i].timestamp

\* The transaction sorted() puts first / last (stable: first of the equals)
FirstSorted(txs) ==
    txs[CHOOSE i \in 1..Len(txs) :
            /\ txs[i].timestamp = MinTs(txs)
            /\ \A j \in 1..(i - 1) : txs[j].timestamp # MinTs(txs)]

LastSorted(txs) ==
    txs[CHOOSE i \in 1..Len(txs) :
            /\ txs[i].timestamp = MaxTs(txs)
            /\ \A j \in (i + 1)..Len(txs) : txs[j].timestamp # MaxTs(txs)]

\* _calculate_age_risk raises TypeError when datetime.utcnow() (naive) is
\* subtracted from a timestamp parsed from an ISO string ending in Z (aware),
\* or when an aware and a naive timestamp are subtracted from each other.
\* sorted() itself raises TypeError when it has to compare a string with a
\* datetime.  A transaction without timestamp sorts under the key "": next
\* to a datetime sorted() raises, otherwise it comes first and
\* datetime.utcnow() - None raises TypeError.
age_risk_raises(txs) ==
    /\ txs # <<>>
    /\ \/ FirstSorted(txs).ts_form = "iso_z"
       \/ LastSorted(txs).ts_form = "iso_z"
       \/ \E i, j \in 1..Len(txs) : txs[i].ts_form # txs[j].ts_form
       \/ \E i \in 1..Len(txs) : txs[i].ts_form = "missing"

\* _calculate_age_risk
calculate_age_risk(txs, utcnow) ==
    IF txs = <<>> THEN 50 * ScoreScale
    ELSE LET first_tx == FirstSorted(txs).timestamp
             last_tx == LastSorted(txs).timestamp
             age_days == FloorDiv(utcnow - first_tx, Day)
             age_risk ==
                 IF age_days < 7 THEN 80
                 ELSE IF age_days < 30 THEN 60
                 ELSE IF age_days < 90 THEN 40
                 ELSE IF age_days < 365 THEN 20
                 ELSE 10
             \* inactivity_ratio = (now - last).days / max(age_days, 1) > 0.5
             inactive == 2 * FloorDiv(utcnow - last_tx, Day) > Max(age_days, 1)
         IN  IF inactive
             THEN Min(age_risk * 13 * (ScoreScale \div 10), 100 * ScoreScale)
             ELSE age_risk * ScoreScale

\* _determine_risk_level, on a score in 1/scale point
determine_risk_level(score, scale) ==
    IF score >= 80 * scale THEN "critical"
    ELSE IF score >= 60 * scale THEN "high"
    ELSE IF score >= 40 * scale THEN "medium"
    ELSE IF score >= 20 * scale THEN "low"
    ELSE "minimal"

\* total_score = sum(score * weight), in 1/TotalScale point
TotalScoreUnweighted(p, a, c, v, g) == (p + a + c + v + g) * 20

total_score(p, a, c, v, g) ==
    p * weights.pattern_risk + a * weights.anomaly_risk
    + c * weights.counterparty_risk + v * weights.volume_risk
    + g * weights.age_risk

Raised == [raised |-> TRUE]

\* calculate_risk_score: the returned dictionary, or Raised
calculate_risk_score(addr, txs, patterns, anomalies, utcnow) ==
    IF age_risk_raises(txs) THEN Raised
    ELSE
    LET pattern_score == calculate_pattern_risk(patterns)
        anomaly_score == calculate_anomaly_risk(anomalies)
        counterparty_score == calculate_counterparty_risk(txs)
        volume_score == calculate_volume_risk(txs)
        age_score == calculate_age_risk(txs, utcnow)
        total == total_score(pattern_score, anomaly_score, counterparty_score,
                             volume_score, age_score)
    IN  [raised |-> FALSE,
         address |-> addr,
         \* round(total_score, 2), in hundredths
         risk_score |-> RoundHalfEven(total * ScoreScale, TotalScale),
         \* the level is determined from the unrounded total
         risk_level |-> determine_risk_level(total, TotalScale),
         breakdown |->
            [pattern_risk |-> [score |-> pattern_score,
                               weight |-> weights.pattern_risk,
                               contribution |-> pattern_score * weights.pattern_risk],
             anomaly_risk |-> [score |-> anomaly_score,
                               weight |-> weights.anomaly_risk,
                               contribution |-> anomaly_score * weights.anomaly_risk],
             counterparty_risk |-> [score |-> counterparty_score,
                               weight |-> weights.counterparty_risk,
                               contribution |-> counterparty_score * weights.counterparty_risk],
             volume_risk |-> [score |-> volume_score,
                               weight |-> weights.volume_risk,
                               contribution |-> volume_score * weights.volume_risk],
             age_risk |-> [score |-> age_score,
                               weight |-> weights.age_risk,
                               contribution |-> age_score * weights.age_risk]],
         total_patterns_detected |-> Len(patterns),
         total_anomalies_detected |-> Len(anomalies)]

-----------------------------------------------------------------------------
(* Inputs of the RiskScorer specification *)

NoResult == [raised |-> FALSE, none |-> TRUE]

RiskTxs ==
    { Tx("0x1", "0xaaa", "0xbbb", 5 * ValueScale, 0, "datetime"),
      Tx("0x2", "0xaaa", TornadoA, 500, 10 * Day, "datetime"),
      Tx("0x3", "0xbbb", "0xaaa", 2000 * ValueScale, 95 * Day, "datetime"),
      Tx("0x4", "0xaaa", "0xccc", 300, 0, "iso_z"),
      Tx("0x5", "0xaaa", "0xddd", 700, NoTimestamp, "missing") }

RiskPatterns ==
    { [pattern_id |-> "mixing", risk_level |-> "critical", confidence |-> 600],
      [pattern_id |-> "rapid_movement", risk_level |-> "critical", confidence |-> 200],
      [pattern_id |-> "layering", risk_level |-> "high", confidence |-> 300],
      [pattern_id |-> "peel_chain", risk_level |-> "low", confidence |-> 540],
      [pattern_id |-> "structuring", risk_level |-> "medium", confidence |-> 0] }

RiskAnomalies ==
    { [severity |-> "high"], [severity |-> "medium"], [severity |-> "low"] }

RiskNows == { 100 * Day + Hour, 3 * Day }

RiskInit ==
    /\ pc = "risk_call"
    /\ address = "0xaaa"
    /\ transactions \in SeqsUpTo(RiskTxs, MaxTxs)
    /\ detected_patterns \in SeqsUpTo(RiskPatterns, MaxPatterns)
    /\ detected_anomalies \in SeqsUpTo(RiskAnomalies, MaxAnomalies)
    /\ now \in RiskNows
    /\ risk_assessment = NoResult
    /\ max_hops = 0
    /\ max_paths = 0
    /\ queue = <<>>
    /\ chains = <<>>
    /\ visited_paths = {}
    /\ explored = 0
    /\ second_run = NoResult
    /\ api_response = NoResult
    /\ language = "en"
    /\ raised = {}
    /\ calls = {}
    /\ amount_anomalies = <<>>
    /\ timeline = NoResult
    /\ minute_requests = <<>>
    /\ hour_requests = <<>>
    /\ dispatch_log = <<>>
    /\ in_flight = {}

\* One call of RiskScorer.calculate_risk_score
CalculateRiskScore ==
    /\ pc = "risk_call"
    /\ risk_assessment' = calculate_risk_score(address, transactions,
                              detected_patterns, detected_anomalies, now)
    /\ pc' = "risk_done"
    /\ UNCHANGED <<minute_requests, hour_requests, dispatch_log, in_flight,
                   address, transactions, detected_patterns,
                   detected_anomalies, now, max_hops, max_paths, queue,
                   chains, visited_paths, explored, second_run,
                   api_response, language, raised, calls, amount_anomalies,
                   timeline>>

\* A later call of calculate_risk_score with the identical arguments
CalculateRiskScoreAgain ==
    /\ pc = "risk_done"
    /\ \E later \in RiskNows :
          /\ later >= now
          /\ now' = later
          /\ second_run' = calculate_risk_score(address, transactions,
                               detected_patterns, detected_anomalies, later)
    /\ pc' = "risk_again_done"
    /\ UNCHANGED <<minute_requests, hour_requests, dispatch_log, in_flight,
                   address, transactions, detected_patterns,
                   detected_anomalies, risk_assessment, max_hops, max_paths,
                   queue, chains, visited_paths, explored, api_response,
                   language, raised, calls, amount_anomalies, timeline>>

RiskNext == CalculateRiskScore \/ CalculateRiskScoreAgain

SpecRisk == RiskInit /\ [][RiskNext]_vars

-----------------------------------------------------------------------------
(* Chain enumeration: PatternMatcher._build_transaction_chains              *)
(* (src/backend/app/services/ml/pattern_matcher.py)                         *)

\* adj_map.get(addr, []): the transactions sent by addr, in list order
adj_map(txs, addr) ==
    LET sent_by(tx) == lower(tx.from) = addr
    IN  FilterSeq(txs, sent_by)

\* queue = [([tx], tx["to"].lower()) for tx in adj_map[start_address.lower()]]
pm_initial_queue(txs, start_address) ==
    LET first == adj_map(txs, lower(start_address))
    IN  [i \in 1..Len(first) |->
            [chain |-> <<first[i]>>, current_addr |-> lower(first[i].to)]]

\* The test that finalizes a chain at max_hops
PmHopLimitOffByOne(chain, hops) == Len(chain) > hops

pm_hop_limit_reached(chain, hops) == Len(chain) >= hops

\* One iteration of the while loop, on the pair (queue, chains)
pm_step(st, txs, hops) ==
    LET chain == Head(st.queue).chain
        current_addr == Head(st.queue).current_addr
        rest == Tail(st.queue)
        next_txs == adj_map(txs, current_addr)
    IN  IF pm_hop_limit_reached(chain, hops)
        THEN [queue |-> rest, chains |-> Append(st.chains, chain)]
        ELSE IF next_txs = <<>>
        THEN [queue |-> rest,
              chains |-> IF Len(chain) >= 3 THEN Append(st.chains, chain)
                         ELSE st.chains]
        ELSE [queue |-> rest \o
                  [i \in 1..Len(next_txs) |->
                      [chain |-> Append(chain, next_txs[i]),
                       current_addr |-> lower(next_txs[i].to)]],
              chains |-> st.chains]

RECURSIVE pm_run(_, _, _)
pm_run(st, txs, hops) ==
    IF st.queue = <<>> THEN st.chains ELSE pm_run(pm_step(st, txs, hops), txs, hops)

\* _build_transaction_chains as one call
build_transaction_chains(txs, start_address, hops) ==
    pm_run([queue |-> pm_initial_queue(txs, start_address), chains |-> <<>>],
           txs, hops)

-----------------------------------------------------------------------------
(* PatternMatcher detectors                                                 *)
(* (src/backend/app/services/ml/pattern_matcher.py)                         *)

NoMatch == [pattern_id |-> "None"]

\* The distinct values of s in order of first appearance (dict key order)
RECURSIVE DistinctInOrder(_)
DistinctInOrder(s) ==
    IF s = <<>> THEN <<>>
    ELSE LET init == DistinctInOrder(SubSeq(s, 1, Len(s) - 1))
             last == s[Len(s)]
         IN  IF last \in Range(init) THEN init ELSE Append(init, last)

\* sorted(txs, key=timestamp): stable
RECURSIVE sort_by_timestamp(_)
sort_by_timestamp(txs) ==
    IF txs = <<>> THEN <<>>
    ELSE LET sorted == sort_by_timestamp(SubSeq(txs, 1, Len(txs) - 1))
             last == txs[Len(txs)]
             k == Cardinality({i \in 1..Len(sorted) :
                      sorted[i].timestamp <= last.timestamp})
         IN  SubSeq(sorted, 1, k) \o <<last>> \o SubSeq(sorted, k + 1, Len(sorted))

Hashes(txs) == [i \in 1..Len(txs) |-> txs[i].hash]

Values(txs) == [i \in 1..Len(txs) |-> txs[i].value]

TotalValue(txs) == SumSeq(Values(txs))

SumSquares(amounts) == SumSeq([i \in 1..Len(amounts) |-> amounts[i] * amounts[i]])

\* timestamp.replace(minute=0, second=0, microsecond=0)
hour_key(ts) == (ts \div Hour) * Hour

\* The minimum bucket size of the smurfing test: "if len(txs) < 10: continue"
SmurfTooFewOffByOne(txs) == Len(txs) <= 10

smurf_too_few(txs) == Len(txs) < 10

\* statistics.pvariance(amounts) ** 0.5 / mean >= 0.3, for mean > 0:
\* 100 * (n * sum(x^2) - sum(x)^2) >= 9 * sum(x)^2
cv_at_least_03(amounts) ==
    LET n == Len(amounts)
        s1 == SumSeq(amounts)
        s2 == SumSquares(amounts)
    IN  100 * (n * s2 - s1 * s1) >= 9 * s1 * s1

\* does the 1-hour window txs qualify as smurfing
smurf_window_qualifies(txs) ==
    /\ ~smurf_too_few(txs)
    /\ \A i \in 1..Len(txs) : txs[i].value < 1 * ValueScale
    /\ ~(Len(txs) > 1 /\ SumSeq(Values(txs)) > 0 /\ cv_at_least_03(Values(txs)))

\* _detect_smurfing
detect_smurfing(pattern, txs, addr) ==
    LET outgoing(tx) == lower(tx.from) = lower(addr) /\ tx.ts_form # "missing"
        sent == FilterSeq(txs, outgoing)
        \* a naive and an aware datetime are different dictionary keys
        hours == DistinctInOrder([i \in 1..Len(sent) |->
                     <<hour_key(sent[i].timestamp), sent[i].ts_form>>])
        window(h) == LET in_hour(tx) == <<hour_key(tx.timestamp), tx.ts_form>> = h
                     IN  FilterSeq(sent, in_hour)
        hits == {k \in 1..Len(hours) : smurf_window_qualifies(window(hours[k]))}
    IN  IF hits = {} THEN NoMatch
        ELSE LET k == CHOOSE x \in hits : \A y \in hits : x <= y
                 w == window(hours[k])
                 amounts == Values(w)
                 n == Len(w)
             IN  [pattern_id |-> pattern.id,
                  risk_level |-> pattern.risk_level,
                  confidence |-> Min(n * (ConfScale \div 20), ConfScale),
                  addresses_count |-> Cardinality({w[i].to : i \in 1..n}),
                  total_amount |-> SumSeq(amounts),
                  transaction_count |-> n,
                  timestamp |-> hours[k][1],
                  evidence |->
                     [transaction_hashes |-> Hashes(Take(w, 10)),
                      average_amount |-> <<SumSeq(amounts), n>>,
                      amount_variance |->
                          IF n > 1
                          THEN <<n * SumSquares(amounts)
                                   - SumSeq(amounts) * SumSeq(amounts), n * n>>
                          ELSE <<0, 1>>]]

\* "last_time - first_time" raises TypeError when a timestamp is None or
\* when one datetime is timezone-aware (parsed from a Z string) and the other
\* naive
ts_sub_raises(a, b) ==
    \/ a.ts_form = "missing"
    \/ b.ts_form = "missing"
    \/ a.ts_form # b.ts_form

\* "addresses = [from ...] + [to ...]; len(addresses) != len(set(addresses))"
chain_addresses(chain) ==
    [i \in 1..Len(chain) |-> chain[i].from] \o [i \in 1..Len(chain) |-> chain[i].to]

\* The first element of seq that satisfies ok, as a set of at most one index
FirstIndex(seq, ok(_)) ==
    {k \in 1..Len(seq) : ok(seq[k]) /\ \A j \in 1..(k - 1) : ~ok(seq[j])}

\* _detect_layering
detect_layering(pattern, txs, addr) ==
    LET found == build_transaction_chains(txs, addr, 10)
        time_diff(chain) == chain[Len(chain)].timestamp - chain[1].timestamp
        ok(chain) ==
            /\ Len(chain) >= 5
            /\ time_diff(chain) <= Day
            /\ Len(chain_addresses(chain)) = Cardinality(Range(chain_addresses(chain)))
        hit == FirstIndex(found, ok)
    IN  IF hit = {} THEN NoMatch
        ELSE LET chain == found[CHOOSE k \in hit : TRUE]
             IN  [pattern_id |-> pattern.id,
                  risk_level |-> pattern.risk_level,
                  confidence |-> Min(Len(chain) * (ConfScale \div 10), ConfScale),
                  addresses_count |-> Cardinality(Range(chain_addresses(chain))),
                  total_amount |-> TotalValue(chain),
                  hop_count |-> Len(chain),
                  timeframe_seconds |-> time_diff(chain),
                  evidence |->
                     [transaction_hashes |-> Hashes(chain),
                      chain_addresses |-> Take(chain_addresses(chain), 10)]]

\* _detect_layering raises: a chain of at least 5 hops whose time difference
\* cannot be computed is reached before any chain is returned as a match
layering_raises(txs, addr) ==
    LET found == build_transaction_chains(txs, addr, 10)
        unusable(chain) == ts_sub_raises(chain[1], chain[Len(chain)])
        hit(chain) ==
            /\ Len(chain) >= 5
            /\ ~unusable(chain)
            /\ chain[Len(chain)].timestamp - chain[1].timestamp <= Day
            /\ Len(chain_addresses(chain)) = Cardinality(Range(chain_addresses(chain)))
    IN  \E k \in 1..Len(found) :
            /\ Len(found[k]) >= 5
            /\ unusable(found[k])
            /\ \A j \in 1..(k - 1) : ~hit(found[j])

\* The mixer test of _detect_mixing without the case folding of the
\* transaction's addresses
TouchesMixerCaseSensitive(pattern, tx) ==
    LET known_mixers == {lower(m) : m \in pattern.known_mixers}
    IN  tx.from \in known_mixers \/ tx.to \in known_mixers

\* "from_addr in known_mixers or to_addr in known_mixers"
touches_mixer(pattern, tx) ==
    LET known_mixers == {lower(m) : m \in pattern.known_mixers}
    IN  lower(tx.from) \in known_mixers \/ lower(tx.to) \in known_mixers

\* The set handed to list(set(...)) for evidence["mixer_addresses"]
mixer_address_set(pattern, mixer_txs) ==
    LET known_mixers == {lower(m) : m \in pattern.known_mixers}
    IN  {IF lower(mixer_txs[i].to) \in known_mixers THEN mixer_txs[i].to
         ELSE mixer_txs[i].from : i \in 1..Len(mixer_txs)}

\* The lists list(set(S)) can return: the iteration order of a set of
\* strings depends on the interpreter's per-process string hashing
SetOrders(S) ==
    {q \in [1..Cardinality(S) -> S] : \A i, j \in 1..Cardinality(S) : i # j => q[i] # q[j]}

\* _detect_mixing; set_order is the order list(set(...)) happens to produce
detect_mixing(pattern, txs, addr, set_order) ==
    LET is_mixer_tx(tx) == touches_mixer(pattern, tx)
        mixer_txs == FilterSeq(txs, is_mixer_tx)
    IN  IF mixer_txs = <<>> THEN NoMatch
        ELSE [pattern_id |-> pattern.id,
              risk_level |-> pattern.risk_level,
              confidence |-> ConfScale,
              addresses_count |->
                  Cardinality({mixer_txs[i].to : i \in 1..Len(mixer_txs)}),
              total_amount |-> TotalValue(mixer_txs),
              transaction_count |-> Len(mixer_txs),
              evidence |->
                 [transaction_hashes |-> Hashes(mixer_txs),
                  mixer_addresses |-> set_order]]

\* The set whose order _detect_mixing leaves to the interpreter
mixing_set(catalog, txs) ==
    LET k == CHOOSE i \in 1..Len(catalog) : catalog[i].id = "mixing"
        is_mixer_tx(tx) == touches_mixer(catalog[k], tx)
    IN  mixer_address_set(catalog[k], FilterSeq(txs, is_mixer_tx))

\* _detect_structuring
detect_structuring(pattern, txs, addr) ==
    LET eth_threshold == pattern.reporting_thresholds
        suspicious(tx) ==
            /\ lower(tx.from) = lower(addr)
            /\ 9 * eth_threshold <= 10 * tx.value
            /\ tx.value < eth_threshold
        suspicious_txs == FilterSeq(txs, suspicious)
    IN  IF Len(suspicious_txs) < 3 THEN NoMatch
        ELSE IF MaxTs(suspicious_txs) - MinTs(suspicious_txs) > 7 * Day THEN NoMatch
        ELSE [pattern_id |-> pattern.id,
              risk_level |-> pattern.risk_level,
              confidence |-> Min(Len(suspicious_txs) * (ConfScale \div 5), ConfScale),
              addresses_count |->
                  Cardinality({suspicious_txs[i].to : i \in 1..Len(suspicious_txs)}),
              total_amount |-> TotalValue(suspicious_txs),
              transaction_count |-> Len(suspicious_txs),
              threshold |-> eth_threshold,
              evidence |->
                 [transaction_hashes |-> Hashes(suspicious_txs),
                  amounts |-> Values(suspicious_txs)]]

\* _detect_structuring raises: max() / min() over timestamps that hold None
\* or both aware and naive datetimes
structuring_raises(pattern, txs, addr) ==
    LET eth_threshold == pattern.reporting_thresholds
        suspicious(tx) ==
            /\ lower(tx.from) = lower(addr)
            /\ 9 * eth_threshold <= 10 * tx.value
            /\ tx.value < eth_threshold
        suspicious_txs == FilterSeq(txs, suspicious)
    IN  /\ Len(suspicious_txs) >= 3
        /\ \E i, j \in 1..Len(suspicious_txs) :
              i # j /\ ts_sub_raises(suspicious_txs[i], suspicious_txs[j])

\* _detect_circular_trading raises: as _detect_layering, for the chains of
\* at least 3 hops that return to the address
circular_trading_raises(txs, addr) ==
    LET found == build_transaction_chains(txs, addr, 10)
        candidate(chain) ==
            Len(chain) >= 3 /\ lower(chain[Len(chain)].to) = lower(addr)
        unusable(chain) == ts_sub_raises(chain[1], chain[Len(chain)])
        hit(chain) ==
            /\ candidate(chain)
            /\ ~unusable(chain)
            /\ chain[Len(chain)].timestamp - chain[1].timestamp <= 2 * Day
    IN  \E k \in 1..Len(found) :
            /\ candidate(found[k])
            /\ unusable(found[k])
            /\ \A j \in 1..(k - 1) : ~hit(found[j])

\* _detect_circular_trading
detect_circular_trading(pattern, txs, addr) ==
    LET found == build_transaction_chains(txs, addr, 10)
        time_diff(chain) == chain[Len(chain)].timestamp - chain[1].timestamp
        ok(chain) ==
            /\ Len(chain) >= 3
            /\ lower(chain[Len(chain)].to) = lower(addr)
            /\ time_diff(chain) <= 2 * Day
        hit == FirstIndex(found, ok)
    IN  IF hit = {} THEN NoMatch
        ELSE LET chain == found[CHOOSE k \in hit : TRUE]
             IN  [pattern_id |-> pattern.id,
                  risk_level |-> pattern.risk_level,
                  confidence |-> Min(Len(chain) * (ConfScale \div 6), ConfScale),
                  addresses_count |-> Len(chain),
                  total_amount |-> TotalValue(chain),
                  cycle_length |-> Len(chain),
                  timeframe_seconds |-> time_diff(chain),
                  evidence |-> [transaction_hashes |-> Hashes(chain)]]

\* the (incoming, outgoing) pairs of _detect_rapid_movement, in loop order
RECURSIVE rapid_pairs(_, _)
rapid_pairs(incoming, outgoing) ==
    IF incoming = <<>> THEN <<>>
    ELSE LET in_tx == Head(incoming)
             rapid(out_tx) ==
                 /\ 0 < out_tx.timestamp - in_tx.timestamp
                 /\ out_tx.timestamp - in_tx.timestamp <= 300
                 /\ 100 * out_tx.value >= 95 * in_tx.value
             outs == FilterSeq(outgoing, rapid)
         IN  [i \in 1..Len(outs) |->
                 [incoming_tx |-> in_tx, outgoing_tx |-> outs[i],
                  time_diff |-> outs[i].timestamp - in_tx.timestamp]]
             \o rapid_pairs(Tail(incoming), outgoing)

\* _detect_rapid_movement raises: "out_time - in_time" is evaluated for every
\* incoming / outgoing pair
rapid_movement_raises(txs, addr) ==
    \E i, j \in 1..Len(txs) :
        /\ lower(txs[i].to) = lower(addr)
        /\ lower(txs[j].from) = lower(addr)
        /\ ts_sub_raises(txs[j], txs[i])

\* _detect_rapid_movement
detect_rapid_movement(pattern, txs, addr) ==
    LET is_in(tx) == lower(tx.to) = lower(addr)
        is_out(tx) == lower(tx.from) = lower(addr)
        rapid_movements == rapid_pairs(FilterSeq(txs, is_in), FilterSeq(txs, is_out))
        n == Len(rapid_movements)
    IN  IF rapid_movements = <<>> THEN NoMatch
        ELSE [pattern_id |-> pattern.id,
              risk_level |-> pattern.risk_level,
              confidence |-> Min(n * (ConfScale \div 3), ConfScale),
              addresses_count |->
                  Cardinality({rapid_movements[i].outgoing_tx.to : i \in 1..n}),
              total_amount |->
                  SumSeq([i \in 1..n |-> rapid_movements[i].incoming_tx.value]),
              occurrence_count |-> n,
              evidence |->
                 [movements |->
                     [i \in 1..Min(n, 5) |->
                         [incoming_tx |-> rapid_movements[i].incoming_tx.hash,
                          outgoing_tx |-> rapid_movements[i].outgoing_tx.hash,
                          time_diff_seconds |-> rapid_movements[i].time_diff]]]]

\* _detect_dusting
detect_dusting(pattern, txs, addr) ==
    LET dust(tx) == lower(tx.from) = lower(addr) /\ tx.value <= 1
        dust_txs == FilterSeq(txs, dust)
        recipients == {lower(dust_txs[i].to) : i \in 1..Len(dust_txs)}
    IN  IF Cardinality(recipients) < 100 THEN NoMatch
        ELSE [pattern_id |-> pattern.id,
              risk_level |-> pattern.risk_level,
              confidence |-> Min(Cardinality(recipients) * (ConfScale \div 200), ConfScale),
              addresses_count |-> Cardinality(recipients),
              total_amount |-> TotalValue(dust_txs),
              transaction_count |-> Len(dust_txs),
              evidence |->
                 [transaction_hashes |-> Hashes(Take(dust_txs, 10)),
                  average_dust_amount |-> <<TotalValue(dust_txs), Len(dust_txs)>>]]

\* _detect_peel_chain raises: sorted(key=tx.get("timestamp", "")) compares a
\* datetime with a string (an ISO string or the default "")
peel_chain_raises(txs, addr) ==
    \E i, j \in 1..Len(txs) :
        /\ lower(txs[i].from) = lower(addr)
        /\ lower(txs[j].from) = lower(addr)
        /\ txs[i].ts_form = "datetime"
        /\ txs[j].ts_form # "datetime"

\* _detect_peel_chain
detect_peel_chain(pattern, txs, addr) ==
    LET is_out(tx) == lower(tx.from) = lower(addr)
        outgoing == sort_by_timestamp(FilterSeq(txs, is_out))
        peel(tx) == 0 < tx.value /\ tx.value < 100 * ValueScale
        peels == IF outgoing = <<>> THEN <<>> ELSE FilterSeq(Tail(outgoing), peel)
    IN  IF Len(outgoing) < 5 THEN NoMatch
        ELSE IF Len(peels) < 5 THEN NoMatch
        ELSE [pattern_id |-> pattern.id,
              risk_level |-> pattern.risk_level,
              confidence |-> Min(Len(peels) * (ConfScale \div 10), ConfScale),
              addresses_count |-> Cardinality({peels[i].to : i \in 1..Len(peels)}),
              total_amount |-> TotalValue(peels),
              peel_count |-> Len(peels),
              evidence |->
                 [transaction_hashes |-> Hashes(Take(peels, 10)),
                  peel_amounts |-> Values(Take(peels, 10))]]

\* self.patterns: the catalog loaded from patterns.json
patterns ==
    << [id |-> "smurfing", risk_level |-> "high"],
       [id |-> "layering", risk_level |-> "high"],
       [id |-> "mixing", risk_level |-> "critical",
        known_mixers |-> {TornadoA, TornadoB}],
       [id |-> "structuring", risk_level |-> "medium",
        reporting_thresholds |-> 10 * ValueScale],
       [id |-> "circular_trading", risk_level |-> "high"],
       [id |-> "rapid_movement", risk_level |-> "medium"],
       [id |-> "dusting", risk_level |-> "low"],
       [id |-> "peel_chain", risk_level |-> "medium"] >>

\* _match_pattern: dispatch on the pattern id
match_pattern(pattern, txs, addr, set_order) ==
    CASE pattern.id = "smurfing" -> detect_smurfing(pattern, txs, addr)
      [] pattern.id = "layering" -> detect_layering(pattern, txs, addr)
      [] pattern.id = "mixing" -> detect_mixing(pattern, txs, addr, set_order)
      [] pattern.id = "structuring" -> detect_structuring(pattern, txs, addr)
      [] pattern.id = "circular_trading" -> detect_circular_trading(pattern, txs, addr)
      [] pattern.id = "rapid_movement" -> detect_rapid_movement(pattern, txs, addr)
      [] pattern.id = "dusting" -> detect_dusting(pattern, txs, addr)
      [] pattern.id = "peel_chain" -> detect_peel_chain(pattern, txs, addr)
      [] OTHER -> NoMatch

\* _match_pattern raises for this catalog entry
match_pattern_raises(pattern, txs, addr) ==
    CASE pattern.id = "layering" -> layering_raises(txs, addr)
      [] pattern.id = "structuring" -> structuring_raises(pattern, txs, addr)
      [] pattern.id = "circular_trading" -> circular_trading_raises(txs, addr)
      [] pattern.id = "rapid_movement" -> rapid_movement_raises(txs, addr)
      [] pattern.id = "peel_chain" -> peel_chain_raises(txs, addr)
      [] OTHER -> FALSE

\* detect_patterns raises: no detector call is guarded, the first exception
\* ends the loop over the catalog
detect_patterns_raises(txs, addr) ==
    \E k \in 1..Len(patterns) : match_pattern_raises(patterns[k], txs, addr)

\* detect_patterns that collects the matches from the last catalog entry to
\* the first
DetectPatternsReversed(txs, addr, set_order) ==
    LET results == [k \in 1..Len(patterns) |->
                       match_pattern(patterns[Len(patterns) + 1 - k], txs, addr, set_order)]
        is_match(r) == r # NoMatch
    IN  FilterSeq(results, is_match)

\* detect_patterns: the matches of the catalog's patterns, in catalog order
detect_patterns(txs, addr, set_order) ==
    LET results == [k \in 1..Len(patterns) |->
                       match_pattern(patterns[k], txs, addr, set_order)]
        is_match(r) == r # NoMatch
    IN  FilterSeq(results, is_match)

\* The objects a detector is handed: the caller's list and the catalog
Shared(txs, catalog) == [transactions |-> txs, patterns |-> catalog]

\* A peel-chain detector that sorts the caller's list in place
\* (transactions.sort(key=...)) instead of sorting a copy
DetectorEffectSortsInPlace(pattern, shared, addr) ==
    IF pattern.id = "peel_chain"
    THEN [shared EXCEPT !.transactions = sort_by_timestamp(@)]
    ELSE shared

\* The shared objects after _match_pattern(pattern, ...): every detector
\* builds new lists (comprehensions, sorted(), chain + [next_tx]) and its own
\* adj_map, queue and dictionaries; none assigns into the list, a
\* transaction or the catalog entry
detector_effect(pattern, shared, addr) == shared

\* The loop of detect_patterns over the catalog positions in the sequence
\* order: the result of every detector (by catalog position) and the shared
\* objects after the last one
RECURSIVE run_detectors(_, _, _, _, _)
run_detectors(order, shared, addr, set_order, results) ==
    IF order = <<>> THEN [results |-> results, shared |-> shared]
    ELSE LET k == Head(order)
             pattern == shared.patterns[k]
         IN  run_detectors(Tail(order),
                           detector_effect(pattern, shared, addr),
                           addr, set_order,
                           [results EXCEPT ![k] =
                               match_pattern(pattern, shared.transactions, addr, set_order)])

CatalogOrder == [k \in 1..Len(patterns) |-> k]

NoResults == [k \in 1..Len(patterns) |-> NoMatch]

\* the caller's list and the catalog after detect_patterns has run
detect_patterns_effect(txs, addr) ==
    run_detectors(CatalogOrder, Shared(txs, patterns), addr, <<>>, NoResults).shared

-----------------------------------------------------------------------------
(* AnomalyDetector  (src/backend/app/services/ml/anomaly_detector.py)       *)
(* A z-score (x - mean) / stdev over n samples with sum s1 and sum of       *)
(* squares s2 is compared through                                           *)
(*   z^2 = (n*x - s1)^2 / (n*s2 - s1^2).                                     *)
(* The anomaly records keep the fields that identify the finding; z_score,  *)
(* mean and stdev are functions of the samples.                             *)

z_score_threshold == 3

\* n^2 * pvariance(samples)
ScaledVariance(samples) ==
    Len(samples) * SumSquares(samples) - SumSeq(samples) * SumSeq(samples)

\* abs(z) > t
AbsZAbove(x, samples, t) ==
    LET d == Len(samples) * x - SumSeq(samples)
    IN  d * d > t * t * ScaledVariance(samples)

\* z > t
ZAbove(x, samples, t) ==
    Len(samples) * x - SumSeq(samples) > 0 /\ AbsZAbove(x, samples, t)

\* An amount test without the two early returns and without the threshold:
\* it reports every amount that differs from the mean
AmountAnomaliesOfAnyDeviation(txs, addr) ==
    LET amounts == Values(txs)
        flagged(tx) == Len(amounts) * tx.value # SumSeq(amounts)
        hits == FilterSeq(txs, flagged)
    IN  [i \in 1..Len(hits) |->
            [type |-> "amount_anomaly",
             severity |-> "medium",
             transaction_hash |-> hits[i].hash,
             amount |-> hits[i].value,
             timestamp |-> hits[i].timestamp]]

\* _detect_amount_anomalies
detect_amount_anomalies(txs, addr) ==
    LET amounts == Values(txs)
    IN  IF Len(amounts) < 10 THEN <<>>
        ELSE IF ScaledVariance(amounts) = 0 THEN <<>>
        ELSE LET flagged(tx) == AbsZAbove(tx.value, amounts, z_score_threshold)
                 hits == FilterSeq(txs, flagged)
             IN  [i \in 1..Len(hits) |->
                     [type |-> "amount_anomaly",
                      severity |-> IF AbsZAbove(hits[i].value, amounts, 4)
                                   THEN "high" ELSE "medium",
                      transaction_hash |-> hits[i].hash,
                      amount |-> hits[i].value,
                      timestamp |-> hits[i].timestamp]]

\* the values of a defaultdict(int) counting keys, in key insertion order
CountsInOrder(keys) ==
    LET ks == DistinctInOrder(keys)
    IN  [k \in 1..Len(ks) |->
            Cardinality({i \in 1..Len(keys) : keys[i] = ks[k]})]

\* _detect_frequency_anomalies
detect_frequency_anomalies(txs, addr) ==
    LET dates == [i \in 1..Len(txs) |-> txs[i].timestamp \div Day]
        days == DistinctInOrder(dates)
        counts == CountsInOrder(dates)
    IN  IF Len(days) < 7 THEN <<>>
        ELSE IF ScaledVariance(counts) = 0 THEN <<>>
        ELSE LET hits == {k \in 1..Len(days) :
                              ZAbove(counts[k], counts, z_score_threshold)}
                 order == FilterSeq([k \in 1..Len(days) |-> k],
                                    LAMBDA k : k \in hits)
             IN  [i \in 1..Len(order) |->
                     [type |-> "frequency_anomaly",
                      severity |-> IF ZAbove(counts[order[i]], counts, 4)
                                   THEN "high" ELSE "medium",
                      date |-> days[order[i]],
                      transaction_count |-> counts[order[i]]]]

\* _detect_time_anomalies
detect_time_anomalies(txs, addr) ==
    LET hours == [i \in 1..Len(txs) |-> (txs[i].timestamp \div Hour) % 24]
        counts == CountsInOrder(hours)
        off_peak_total == Cardinality({i \in 1..Len(hours) : hours[i] \in 1..5})
        total_transactions == Len(hours)
    IN  IF Len(counts) < 6 THEN <<>>
        ELSE IF ScaledVariance(counts) = 0 THEN <<>>
        ELSE IF total_transactions > 0 /\ 10 * off_peak_total > 4 * total_transactions
        THEN << [type |-> "time_pattern_anomaly",
                 severity |-> "medium",
                 off_peak_count |-> off_peak_total,
                 total_count |-> total_transactions] >>
        ELSE <<>>

\* _detect_counterparty_anomalies
detect_counterparty_anomalies(txs, addr) ==
    LET counterparty(tx) == IF lower(tx.from) = lower(addr) THEN lower(tx.to)
                            ELSE lower(tx.from)
        parties == [i \in 1..Len(txs) |-> counterparty(txs[i])]
        keys == DistinctInOrder(parties)
        counts == CountsInOrder(parties)
        amounts == [k \in 1..Len(keys) |->
                       SumSeq([i \in 1..Len(txs) |->
                           IF parties[i] = keys[k] THEN txs[i].value ELSE 0])]
        concentrated == FilterSeq([k \in 1..Len(keys) |-> k],
                            LAMBDA k : /\ ScaledVariance(counts) > 0
                                       /\ ZAbove(counts[k], counts, z_score_threshold))
        \* amount > statistics.mean(amounts) * 2
        one_time == FilterSeq([k \in 1..Len(keys) |-> k],
                        LAMBDA k : /\ counts[k] = 1
                                   /\ Len(keys) * amounts[k] > 2 * SumSeq(amounts))
    IN  IF Len(keys) < 5 THEN <<>>
        ELSE [i \in 1..Len(concentrated) |->
                 [type |-> "counterparty_concentration",
                  severity |-> "medium",
                  counterparty |-> keys[concentrated[i]],
                  transaction_count |-> counts[concentrated[i]],
                  total_amount |-> amounts[concentrated[i]]]]
             \o
             [i \in 1..Len(one_time) |->
                 [type |-> "one_time_large_transaction",
                  severity |-> "high",
                  counterparty |-> keys[one_time[i]],
                  amount |-> amounts[one_time[i]]]]

\* detect_anomalies raises: _detect_frequency_anomalies evaluates
\* timestamp.date() for every transaction before any length check, which is
\* AttributeError for None
detect_anomalies_raises(txs, addr) ==
    \E i \in 1..Len(txs) : txs[i].ts_form = "missing"

\* detect_anomalies
detect_anomalies(txs, addr) ==
    detect_amount_anomalies(txs, addr)
    \o detect_frequency_anomalies(txs, addr)
    \o detect_time_anomalies(txs, addr)
    \o detect_counterparty_anomalies(txs, addr)

-----------------------------------------------------------------------------
(* TimelineAnalyzer  (src/backend/app/services/narrative/timeline_analyzer.py) *)
(* The results keep the fields that are counted or measured; the averages,  *)
(* medians and ratios are functions of them.                                *)

\* an empty dict {}
EmptyDict == [empty |-> TRUE]

\* "if not ts: continue" / "if ts: timestamps.append(ts)"
WithTimestamp(txs) ==
    LET present(tx) == tx.ts_form # "missing"
    IN  FilterSeq(txs, present)

\* _sort_by_timestamp raises: the key of a Z string is an aware datetime,
\* the key of a datetime is itself and the key of a missing timestamp is the
\* naive datetime.min; sorted() compares an aware with a naive one
ta_sort_raises(txs) ==
    \E i, j \in 1..Len(txs) :
        txs[i].ts_form = "iso_z" /\ txs[j].ts_form # "iso_z"

\* _sort_by_timestamp: stable, datetime.min (before every timestamp) for a
\* missing timestamp
RECURSIVE ta_sort_by_timestamp(_)
ta_sort_by_timestamp(txs) ==
    IF txs = <<>> THEN <<>>
    ELSE LET sorted == ta_sort_by_timestamp(SubSeq(txs, 1, Len(txs) - 1))
             last == txs[Len(txs)]
             key(tx) == IF tx.ts_form = "missing" THEN NoTimestamp ELSE tx.timestamp
             k == Cardinality({i \in 1..Len(sorted) : key(sorted[i]) <= key(last)})
         IN  SubSeq(sorted, 1, k) \o <<last>> \o SubSeq(sorted, k + 1, Len(sorted))

\* _calculate_time_span
calculate_time_span(sorted_transactions) ==
    LET timestamps == {tx.timestamp : tx \in Range(WithTimestamp(sorted_transactions))}
        first == CHOOSE t \in timestamps : \A u \in timestamps : t <= u
        last == CHOOSE t \in timestamps : \A u \in timestamps : t >= u
    IN  IF timestamps = {} THEN EmptyDict
        ELSE [first_transaction |-> first,
              last_transaction |-> last,
              duration_seconds |-> last - first]

\* _summarize_period
summarize_period(period) ==
    [start_time |-> period[1].timestamp,
     end_time |-> period[Len(period)].timestamp,
     duration_seconds |-> period[Len(period)].timestamp - period[1].timestamp,
     transaction_count |-> Len(period),
     total_amount |-> TotalValue(period)]

\* the loop with a gap of exactly one hour closing the period
RECURSIVE ActivityLoopStrict(_, _, _)
ActivityLoopStrict(rest, current, periods) ==
    IF rest = <<>>
    THEN IF current = <<>> THEN periods
         ELSE Append(periods, summarize_period(current))
    ELSE LET tx == Head(rest)
         IN  IF current = <<>>
             THEN ActivityLoopStrict(Tail(rest), <<tx>>, periods)
             ELSE IF tx.timestamp - current[Len(current)].timestamp < Hour
             THEN ActivityLoopStrict(Tail(rest), Append(current, tx), periods)
             ELSE ActivityLoopStrict(Tail(rest), <<tx>>,
                                     Append(periods, summarize_period(current)))

\* the loop of _identify_activity_periods over the transactions that have a
\* timestamp: current is the open period, periods the closed ones
RECURSIVE activity_loop(_, _, _)
activity_loop(rest, current, periods) ==
    IF rest = <<>>
    THEN IF current = <<>> THEN periods
         ELSE Append(periods, summarize_period(current))
    ELSE LET tx == Head(rest)
         IN  IF current = <<>>
             THEN activity_loop(Tail(rest), <<tx>>, periods)
             ELSE IF tx.timestamp - current[Len(current)].timestamp <= Hour
             THEN activity_loop(Tail(rest), Append(current, tx), periods)
             ELSE activity_loop(Tail(rest), <<tx>>,
                                Append(periods, summarize_period(current)))

\* _identify_activity_periods (burst_threshold_seconds = 3600)
identify_activity_periods(sorted_transactions) ==
    activity_loop(WithTimestamp(sorted_transactions), <<>>, <<>>)

\* _analyze_frequency
analyze_frequency(sorted_transactions) ==
    LET dated == WithTimestamp(sorted_transactions)
        counts == CountsInOrder([i \in 1..Len(dated) |-> dated[i].timestamp \div Day])
        off_hours == {i \in 1..Len(dated) :
                         (dated[i].timestamp % Day) \div Hour \in 1..5}
    IN  [total_transactions |-> Len(sorted_transactions),
         active_days |-> Len(counts),
         max_daily_transactions |->
             IF counts = <<>> THEN 0
             ELSE CHOOSE c \in Range(counts) : \A d \in Range(counts) : c >= d,
         off_hours_count |-> Cardinality(off_hours)]

\* _analyze_velocity
analyze_velocity(sorted_transactions) ==
    LET pairs == {i \in 2..Len(sorted_transactions) :
                     /\ sorted_transactions[i - 1].ts_form # "missing"
                     /\ sorted_transactions[i].ts_form # "missing"}
        interval(i) == sorted_transactions[i].timestamp
                           - sorted_transactions[i - 1].timestamp
    IN  IF Len(sorted_transactions) < 2 \/ pairs = {} THEN EmptyDict
        ELSE [min_interval_seconds |->
                  interval(CHOOSE i \in pairs : \A j \in pairs : interval(i) <= interval(j)),
              rapid_movements_count |-> Cardinality({i \in pairs : interval(i) < 600})]

\* analyze_timeline
analyze_timeline(txs) ==
    IF txs = <<>>
    THEN [time_span |-> EmptyDict,
          activity_periods |-> <<>>,
          frequency_pattern |-> EmptyDict,
          velocity_analysis |-> EmptyDict]
    ELSE LET sorted_txs == ta_sort_by_timestamp(txs)
         IN  [time_span |-> calculate_time_span(sorted_txs),
              activity_periods |-> identify_activity_periods(sorted_txs),
              frequency_pattern |-> analyze_frequency(sorted_txs),
              velocity_analysis |-> analyze_velocity(sorted_txs)]

-----------------------------------------------------------------------------
(* Chain enumeration: GraphAnalyzer.build_graph / find_main_paths            *)
(* (src/backend/app/services/narrative/graph_analyzer.py)                    *)

\* graph["adjacency"][addr]: the edges build_graph appends for sender addr
adjacency(txs, addr) ==
    LET sent == adj_map(txs, addr)
    IN  [i \in 1..Len(sent) |->
            [to |-> lower(sent[i].to), amount |-> sent[i].value,
             timestamp |-> sent[i].timestamp, tx_hash |-> sent[i].hash]]

path_sig(path) == [i \in 1..Len(path) |-> path[i].tx_hash]

path_amount(path) == SumSeq([i \in 1..Len(path) |-> path[i].amount])

\* paths.sort(key=total amount, reverse=True): stable insertion
RECURSIVE sort_paths(_)
sort_paths(paths) ==
    IF paths = <<>> THEN <<>>
    ELSE LET sorted == sort_paths(SubSeq(paths, 1, Len(paths) - 1))
             last == paths[Len(paths)]
             \* the last path goes after every path with amount >= its own
             k == Cardinality({i \in 1..Len(sorted) :
                      path_amount(sorted[i]) >= path_amount(last)})
         IN  SubSeq(sorted, 1, k) \o <<last>> \o SubSeq(sorted, k + 1, Len(sorted))

\* The cycle test of find_main_paths: any(e["to"] == next_edge["to"] for e in path)
ga_closes_cycle(path, next_edge) ==
    \E i \in 1..Len(path) : path[i].to = next_edge.to

\* One iteration of the while loop, on (queue, paths, visited_paths)
ga_step(st, txs, hops) ==
    LET path == Head(st.queue)
        rest == Tail(st.queue)
        current_to == path[Len(path)].to
        next_edges == adjacency(txs, current_to)
        keep(e) == ~ga_closes_cycle(path, e)
        extend == FilterSeq(next_edges, keep)
    IN  IF Len(path) >= hops
        THEN [queue |-> rest, paths |-> Append(st.paths, path),
              visited |-> st.visited]
        ELSE IF path_sig(path) \in st.visited
        THEN [queue |-> rest, paths |-> st.paths, visited |-> st.visited]
        ELSE IF next_edges = <<>>
        THEN [queue |-> rest,
              paths |-> IF Len(path) >= 2 THEN Append(st.paths, path)
                        ELSE st.paths,
              visited |-> st.visited \cup {path_sig(path)}]
        ELSE [queue |-> rest \o
                  [i \in 1..Len(extend) |-> Append(path, extend[i])],
              paths |-> st.paths,
              visited |-> st.visited \cup {path_sig(path)}]

-----------------------------------------------------------------------------
(* Specification of the two chain enumerations, one loop iteration per step *)

MaxChainTxs == 4
MaxHopsArg == 3
MaxPathsArg == 2

ChainEdges ==
    { Tx("0xe1", "0xaaa", "0xbbb", 1000, 0, "datetime"),
      Tx("0xe2", "0xbbb", "0xccc", 2000, Hour, "datetime"),
      Tx("0xe3", "0xccc", "0xddd", 3000, 2 * Hour, "datetime"),
      Tx("0xe4", "0xccc", "0xAAA", 1000, 3 * Hour, "datetime"),
      Tx("0xe5", "0xAAA", "0xbbb", 5000, 4 * Hour, "datetime"),
      Tx("0xe6", "0xbbb", "0xbbb", 500, 5 * Hour, "datetime") }

\* Transaction lists: every transaction has its own hash
DistinctSeqs(S, n) ==
    {s \in SeqsUpTo(S, n) : \A i, j \in 1..Len(s) : i # j => s[i] # s[j]}

ChainInit ==
    /\ pc \in {"pm_call", "ga_call"}
    /\ address = "0xAAA"
    /\ transactions \in DistinctSeqs(ChainEdges, MaxChainTxs)
    /\ max_hops \in 1..MaxHopsArg
    /\ max_paths \in 1..MaxPathsArg
    /\ detected_patterns = <<>>
    /\ detected_anomalies = <<>>
    /\ now = 0
    /\ risk_assessment = NoResult
    /\ queue = <<>>
    /\ chains = <<>>
    /\ visited_paths = {}
    /\ explored = 0
    /\ second_run = NoResult
    /\ api_response = NoResult
    /\ language = "en"
    /\ raised = {}
    /\ calls = {}
    /\ amount_anomalies = <<>>
    /\ timeline = NoResult
    /\ minute_requests = <<>>
    /\ hour_requests = <<>>
    /\ dispatch_log = <<>>
    /\ in_flight = {}

ChainFrame ==
    UNCHANGED <<minute_requests, hour_requests, dispatch_log, in_flight,
                address, transactions, detected_patterns, detected_anomalies,
                now, risk_assessment, max_hops, max_paths, second_run,
                api_response, language, raised, calls, amount_anomalies,
                timeline>>

\* _build_transaction_chains up to the while loop
PmStart ==
    /\ pc = "pm_call"
    /\ queue' = pm_initial_queue(transactions, address)
    /\ chains' = <<>>
    /\ pc' = "pm_loop"
    /\ UNCHANGED <<visited_paths, explored>>
    /\ ChainFrame

\* an iteration that takes nothing from the queue
PmStepLeavesQueue ==
    /\ pc = "pm_loop"
    /\ queue # <<>>
    /\ UNCHANGED <<pc, queue, chains, visited_paths, explored>>
    /\ ChainFrame

\* one iteration of "while queue:"
PmStep ==
    /\ pc = "pm_loop"
    /\ queue # <<>>
    /\ LET st == pm_step([queue |-> queue, chains |-> chains],
                         transactions, max_hops)
       IN  /\ queue' = st.queue
           /\ chains' = st.chains
    /\ explored' = explored + 1
    /\ UNCHANGED <<pc, visited_paths>>
    /\ ChainFrame

\* "return chains"
PmReturn ==
    /\ pc = "pm_loop"
    /\ queue = <<>>
    /\ pc' = "pm_done"
    /\ UNCHANGED <<queue, chains, visited_paths, explored>>
    /\ ChainFrame

\* find_main_paths up to the while loop
GaStart ==
    /\ pc = "ga_call"
    /\ LET first == adjacency(transactions, lower(address))
       IN  queue' = [i \in 1..Len(first) |-> <<first[i]>>]
    /\ chains' = <<>>
    /\ visited_paths' = {}
    /\ pc' = "ga_loop"
    /\ UNCHANGED explored
    /\ ChainFrame

\* one iteration of "while queue and len(paths) < max_paths:"
GaStep ==
    /\ pc = "ga_loop"
    /\ queue # <<>>
    /\ Len(chains) < max_paths
    /\ LET st == ga_step([queue |-> queue, paths |-> chains,
                          visited |-> visited_paths], transactions, max_hops)
       IN  /\ queue' = st.queue
           /\ chains' = st.paths
           /\ visited_paths' = st.visited
    /\ explored' = explored + 1
    /\ UNCHANGED pc
    /\ ChainFrame

\* the sort and "return paths[:max_paths]"
GaReturn ==
    /\ pc = "ga_loop"
    /\ ~(queue # <<>> /\ Len(chains) < max_paths)
    /\ chains' = Take(sort_paths(chains), max_paths)
    /\ pc' = "ga_done"
    /\ UNCHANGED <<queue, visited_paths, explored>>
    /\ ChainFrame

ChainNext == PmStart \/ PmStep \/ PmReturn \/ GaStart \/ GaStep \/ GaReturn

SpecChains == ChainInit /\ [][ChainNext]_vars

\* Each enumeration is one synchronous loop of a single call: once called it
\* runs its next iteration, or its return, without waiting for anything.
SpecChainsFair == ChainInit /\ [][ChainNext]_vars /\ WF_vars(ChainNext)

-----------------------------------------------------------------------------
(* Claims about the chain enumerations *)

\* The addresses along a chain: the sender of the first transaction, then
\* the receiver of every transaction
chain_endpoints(chain) ==
    <<lower(chain[1].from)>> \o [i \in 1..Len(chain) |-> lower(chain[i].to)]

NoRepeat(s) == \A i, j \in 1..Len(s) : i # j => s[i] # s[j]

\* C3 (stated as claimed): every chain returned by
\* _build_transaction_chains is a simple path, no address appears twice
\* among its endpoints.
C3_ChainsAreSimplePaths ==
    pc = "pm_done" =>
        \A i \in 1..Len(chains) : NoRepeat(chain_endpoints(chains[i]))

\* C4: every chain returned by _build_transaction_chains and every path
\* returned by find_main_paths has at most max_hops edges, and no chain in
\* the work queue is ever longer than max_hops.
C4_LengthWithinMaxHops ==
    /\ pc \in {"pm_loop", "pm_done"} =>
          /\ \A i \in 1..Len(chains) : Len(chains[i]) <= max_hops
          /\ \A i \in 1..Len(queue) : Len(queue[i].chain) <= max_hops
    /\ pc \in {"ga_loop", "ga_done"} =>
          /\ \A i \in 1..Len(chains) : Len(chains[i]) <= max_hops
          /\ \A i \in 1..Len(queue) : Len(queue[i]) <= max_hops

\* C4 witness: the pattern matcher's enumeration has returned a chain of
\* exactly max_hops edges (max_hops > 1) after extending shorter chains.
C4_Witness ==
    /\ pc = "pm_done"
    /\ max_hops > 1
    /\ \E i \in 1..Len(chains) : Len(chains[i]) = max_hops
    /\ explored > max_hops

\* the list holds a cycle through the start address, a self-transfer and two
\* transactions leaving the start address
CyclesAndParallels ==
    /\ \E i \in 1..Len(transactions) : lower(transactions[i].to) = lower(address)
    /\ \E i \in 1..Len(transactions) :
          lower(transactions[i].from) = lower(transactions[i].to)
    /\ Cardinality({i \in 1..Len(transactions) :
                       lower(transactions[i].from) = lower(address)}) >= 2

\* C27 (stated as claimed): for every transaction list and every
\* max_hops >= 1, each chain enumeration eventually empties its work queue
\* and returns.
C27_QueueEmptiedAndReturned ==
    <>(pc \in {"pm_done", "ga_done"} /\ queue = <<>>)

\* C27 (amended): each chain enumeration eventually returns;
\* _build_transaction_chains returns with its work queue empty,
\* find_main_paths with its work queue empty or with max_paths paths
\* collected.
C27_EnumerationReturns ==
    <>(\/ pc = "pm_done" /\ queue = <<>>
       \/ pc = "ga_done" /\ (queue = <<>> \/ Len(chains) >= max_paths))

\* C27 witness: an enumeration over a list with a cycle, a self-transfer and
\* two transactions leaving the start address has returned after several
\* iterations.
C27_Witness ==
    /\ pc \in {"pm_done", "ga_done"}
    /\ CyclesAndParallels
    /\ max_hops >= 2
    /\ explored >= 3

\* The cap on explored chains that section 4.2 of the design requires,
\* scaled to the graphs of this model.
ExploreCap == 8

\* C5 (stated as claimed): the number of chains taken from the work queue in
\* one enumeration never exceeds a fixed cap.
C5_ExploredWithinCap ==
    pc \in {"pm_loop", "pm_done", "ga_loop", "ga_done"} => explored <= ExploreCap

-----------------------------------------------------------------------------
(* Specification of detect_patterns / detect_anomalies                      *)

MaxMixTxs == 3
MaxLayerHops == 6
MaxSmurfTxs == 12

HashNames ==
    <<"0xh01", "0xh02", "0xh03", "0xh04", "0xh05", "0xh06", "0xh07", "0xh08",
      "0xh09", "0xh10", "0xh11", "0xh12", "0xh13", "0xh14", "0xh15", "0xh16">>

\* Transactions around two mixers: sent to a mixer written in mixed case,
\* received from a mixer written in lower case, an unrelated transfer
MixTxs ==
    { Tx("0xm1", "0xaaa", TornadoA, 100, 10 * Hour, "iso_z"),
      Tx("0xm2", TornadoBLower, "0xaaa", 200, 10 * Hour + 60, "iso_z"),
      Tx("0xm3", "0xaaa", "0xbbb", 300, 10 * Hour + 180, "iso_z"),
      Tx("0xm4", "0xAAA", TornadoB, 300, 11 * Hour, "iso_z") }

MixInputs ==
    {[txs |-> l, address |-> "0xaaa"] : l \in DistinctSeqs(MixTxs, MaxMixTxs)}

\* A chain n0 -> n1 -> ... -> nh, one transaction every gap seconds.
\* style "plain": every address in lower case; "upper_to": each receiver is
\* written in upper case.  extra: a further transaction leaving the last
\* address ("extend": to a new address, "back": to the start address).
LayerChain(h, gap, style, extra) ==
    LET hop(i) == Tx(HashNames[i], LowerNodes[i],
                     IF style = "plain" THEN LowerNodes[i + 1] ELSE UpperNodes[i + 1],
                     1000, 10 * Hour + (i - 1) * gap, "iso_z")
        base == [i \in 1..h |-> hop(i)]
    IN  CASE extra = "none" -> base
          [] extra = "extend" ->
                Append(base, Tx(HashNames[h + 1], LowerNodes[h + 1], LowerNodes[h + 2],
                                1000, 10 * Hour + h * gap, "iso_z"))
          [] extra = "back" ->
                Append(base, Tx(HashNames[h + 1], LowerNodes[h + 1], LowerNodes[1],
                                1000, 10 * Hour + h * gap, "iso_z"))

LayerInputs ==
    {[txs |-> LayerChain(h, gap, style, extra), address |-> "0xN0"] :
        h \in 4..MaxLayerHops, gap \in {2 * Hour, 6 * Hour},
        style \in {"plain", "upper_to"}, extra \in {"none", "extend", "back"}}

\* n transactions sent by 0xaaa to n recipients, one every spacing seconds
\* from 10:00 + offset.  shape: "uniform" all 0.05, "spread" alternating
\* 0.02 / 0.18, "one_large" the first is 1.5.
SmurfList(n, offset, spacing, shape) ==
    [i \in 1..n |->
        Tx(HashNames[i], "0xaaa", Recipients[i],
           CASE shape = "uniform" -> 50
             [] shape = "spread" -> IF i % 2 = 1 THEN 20 ELSE 180
             [] shape = "one_large" -> IF i = 1 THEN 1500 ELSE 50,
           10 * Hour + offset + (i - 1) * spacing, "iso_z")]

SmurfInputs ==
    {[txs |-> SmurfList(n, offset, spacing, shape), address |-> "0xaaa"] :
        n \in 9..MaxSmurfTxs, offset \in {0, 2400, 3000}, spacing \in {120, 240},
        shape \in {"uniform", "spread", "one_large"}}

MaxCycleHops == 4

\* Cycles n0 -> n1 -> ... -> n0 of 3 to MaxCycleHops transactions
CycleInputs ==
    {[txs |-> LayerChain(h - 1, gap, "plain", "back"), address |-> "0xn0"] :
        h \in 3..MaxCycleHops, gap \in {2 * Hour, 6 * Hour}}

MaxStructTxs == 4

\* Transfers of 0xaaa around the reporting threshold of 10.0: three just
\* below it on consecutive days, a fourth ten days later, one at the
\* threshold, and one received
StructTxs ==
    { Tx("0xt1", "0xaaa", "0xr01", 9000, 10 * Hour, "iso_z"),
      Tx("0xt2", "0xaaa", "0xr02", 9500, Day + 10 * Hour, "iso_z"),
      Tx("0xt3", "0xAAA", "0xr03", 9999, 2 * Day + 10 * Hour, "iso_z"),
      Tx("0xt4", "0xaaa", "0xr04", 9200, 12 * Day + 10 * Hour, "iso_z"),
      Tx("0xt5", "0xaaa", "0xr05", 10000, Day + 11 * Hour, "iso_z"),
      Tx("0xt6", "0xbbb", "0xaaa", 9500, Day + 12 * Hour, "iso_z") }

StructInputs ==
    {[txs |-> l, address |-> "0xaaa"] : l \in DistinctSeqs(StructTxs, MaxStructTxs)}

MaxSparseTxs == 3

\* Transactions of 0xaaa whose timestamps come in the three forms: a
\* Z string, a datetime object, none at all
SparseTxs ==
    { Tx("0xs1", "0xaaa", "0xbbb", 100, 10 * Hour, "iso_z"),
      Tx("0xs2", "0xbbb", "0xaaa", 200, NoTimestamp, "missing"),
      Tx("0xs3", "0xaaa", "0xccc", 300, NoTimestamp, "missing"),
      Tx("0xs4", "0xaaa", "0xddd", 400, 12 * Hour, "datetime"),
      Tx("0xs5", "0xccc", "0xaaa", 50, 10 * Hour - 100, "iso_z") }

SparseInputs ==
    {[txs |-> l, address |-> "0xaaa"] : l \in DistinctSeqs(SparseTxs, MaxSparseTxs)}

\* the list with the timestamp of its k-th transaction removed
WithoutTimestamp(txs, k) ==
    [i \in 1..Len(txs) |->
        IF i = k
        THEN [txs[i] EXCEPT !.timestamp = NoTimestamp, !.ts_form = "missing"]
        ELSE txs[i]]

\* the chains and the transfer series with one timestamp missing
SparseChainInputs ==
    {[txs |-> WithoutTimestamp(in.txs, 1), address |-> in.address] :
        in \in LayerInputs}
    \cup {[txs |-> WithoutTimestamp(in.txs, 2), address |-> in.address] :
              in \in SmurfInputs}

MaxNightTxs == 10

\* Hours of day of the transactions of one address, in list order: at night
\* and spread evenly, at night with one hour used twice, fewer than six hours,
\* mostly by day, exactly four in ten at night, five in ten at night
HourLists ==
    { <<0, 1, 2, 3, 4, 5>>,
      <<0, 1, 2, 3, 4, 5, 1>>,
      <<1, 2, 3, 4, 5, 1, 2>>,
      <<1, 2, 9, 10, 11, 12, 9>>,
      <<1, 2, 3, 4, 9, 10, 11, 12, 13, 9>>,
      <<1, 2, 3, 4, 5, 10, 11, 12, 13, 5>> }

\* One transfer of 0xaaa at each of the hours, the i-th on day (i - 1) % days
NightList(hours, days, form) ==
    [i \in 1..Len(hours) |->
        Tx(HashNames[i], "0xaaa", Recipients[i], 300,
           ((i - 1) % days) * Day + hours[i] * Hour + 5 * i, form)]

NightInputs ==
    {[txs |-> NightList(hours, days, form), address |-> "0xaaa"] :
        hours \in {h \in HourLists : Len(h) <= MaxNightTxs},
        days \in {1, 3}, form \in {"iso_z", "datetime"}}
    \cup {[txs |-> WithoutTimestamp(NightList(hours, 1, "datetime"), 2),
            address |-> "0xaaa"] :
              hours \in {h \in HourLists : Len(h) <= MaxNightTxs}}

MaxBulkTxs == 11

\* n transfers of 0xaaa to a mixer, one every two hours
BulkList(n) ==
    [i \in 1..n |->
        Tx(HashNames[i], "0xaaa", TornadoA, 100, (i - 1) * 2 * Hour, "iso_z")]

BulkInputs ==
    {[txs |-> BulkList(n), address |-> "0xaaa"] : n \in 10..MaxBulkTxs}

PatternInputs ==
    MixInputs \cup LayerInputs \cup SmurfInputs \cup SparseInputs \cup SparseChainInputs
    \cup CycleInputs \cup StructInputs \cup NightInputs \cup BulkInputs

PatternInit ==
    /\ pc = "detect_call"
    /\ \E in \in PatternInputs :
          /\ transactions = in.txs
          /\ address = in.address
    /\ detected_patterns = <<>>
    /\ detected_anomalies = <<>>
    /\ now = 0
    /\ risk_assessment = NoResult
    /\ max_hops = 0
    /\ max_paths = 0
    /\ queue = <<>>
    /\ chains = <<>>
    /\ visited_paths = {}
    /\ explored = 0
    /\ second_run = NoResult
    /\ api_response = NoResult
    /\ language = "en"
    /\ raised = {}
    /\ calls = {}
    /\ amount_anomalies = <<>>
    /\ timeline = NoResult
    /\ minute_requests = <<>>
    /\ hour_requests = <<>>
    /\ dispatch_log = <<>>
    /\ in_flight = {}

PatternFrame ==
    UNCHANGED <<minute_requests, hour_requests, dispatch_log, in_flight,
                address, now, risk_assessment, max_hops,
                max_paths, queue, chains, visited_paths, explored,
                api_response, language, calls>>

\* PatternMatcher.detect_patterns(transactions, address): the list of
\* matches, or an exception that leaves the caller without a list
DetectPatterns ==
    /\ pc = "detect_call"
    /\ IF detect_patterns_raises(transactions, address)
       THEN /\ detected_patterns' = <<>>
            /\ raised' = raised \cup {"detect_patterns"}
       ELSE /\ \E order \in SetOrders(mixing_set(patterns, transactions)) :
                  detected_patterns' = detect_patterns(transactions, address, order)
            /\ raised' = raised
    /\ transactions' = detect_patterns_effect(transactions, address).transactions
    /\ pc' = "anomaly_call"
    /\ UNCHANGED <<detected_anomalies, second_run, amount_anomalies, timeline>>
    /\ PatternFrame

\* AnomalyDetector.detect_anomalies(transactions, address): the amount test
\* runs first and returns its list; the frequency test may raise after it
DetectAnomalies ==
    /\ pc = "anomaly_call"
    /\ amount_anomalies' = detect_amount_anomalies(transactions, address)
    /\ IF detect_anomalies_raises(transactions, address)
       THEN /\ detected_anomalies' = <<>>
            /\ raised' = raised \cup {"detect_anomalies"}
       ELSE /\ detected_anomalies' = detect_anomalies(transactions, address)
            /\ raised' = raised
    /\ pc' = "timeline_call"
    /\ UNCHANGED <<transactions, detected_patterns, second_run, timeline>>
    /\ PatternFrame

\* TimelineAnalyzer.analyze_timeline(transactions)
AnalyzeTimeline ==
    /\ pc = "timeline_call"
    /\ IF transactions # <<>> /\ ta_sort_raises(transactions)
       THEN /\ timeline' = NoResult
            /\ raised' = raised \cup {"analyze_timeline"}
       ELSE /\ timeline' = analyze_timeline(transactions)
            /\ raised' = raised
    /\ pc' = "second_call"
    /\ UNCHANGED <<transactions, detected_patterns, detected_anomalies, second_run, amount_anomalies>>
    /\ PatternFrame

\* detect_patterns and detect_anomalies again, with the identical arguments,
\* in another run
SecondRun ==
    /\ pc = "second_call"
    /\ \E order \in SetOrders(mixing_set(patterns, transactions)) :
          second_run' =
              [raised |-> detect_patterns_raises(transactions, address)
                          \/ detect_anomalies_raises(transactions, address),
               patterns |-> IF detect_patterns_raises(transactions, address)
                            THEN <<>>
                            ELSE detect_patterns(transactions, address, order),
               anomalies |-> IF detect_anomalies_raises(transactions, address)
                             THEN <<>>
                             ELSE detect_anomalies(transactions, address)]
    /\ pc' = "detect_done"
    /\ UNCHANGED <<transactions, detected_patterns, detected_anomalies, raised, amount_anomalies, timeline>>
    /\ PatternFrame

PatternNext == DetectPatterns \/ DetectAnomalies \/ AnalyzeTimeline \/ SecondRun

SpecPatterns == PatternInit /\ [][PatternNext]_vars

-----------------------------------------------------------------------------
(* Claims about detect_patterns / detect_anomalies *)

\* detect_patterns has returned its list
PatternsReturned ==
    /\ pc \in {"anomaly_call", "timeline_call", "second_call", "detect_done"}
    /\ "detect_patterns" \notin raised

\* detect_anomalies has returned its list
AnomaliesReturned ==
    /\ pc \in {"timeline_call", "second_call", "detect_done"}
    /\ "detect_anomalies" \notin raised

MatchesOf(id) == {k \in 1..Len(detected_patterns) : detected_patterns[k].pattern_id = id}

\* the amount test of detect_anomalies has run
AmountTestDone == pc \in {"timeline_call", "second_call", "detect_done"}

AllAmountsIdentical ==
    \A i, j \in 1..Len(transactions) : transactions[i].value = transactions[j].value

\* the lengths of the lists inside the evidence of a match
EvidenceLengths(match) ==
    LET ev == match.evidence
    IN  CASE match.pattern_id \in {"smurfing", "dusting", "circular_trading"} ->
                {Len(ev.transaction_hashes)}
          [] match.pattern_id = "layering" ->
                {Len(ev.transaction_hashes), Len(ev.chain_addresses)}
          [] match.pattern_id = "mixing" ->
                {Len(ev.transaction_hashes), Len(ev.mixer_addresses)}
          [] match.pattern_id = "structuring" ->
                {Len(ev.transaction_hashes), Len(ev.amounts)}
          [] match.pattern_id = "rapid_movement" ->
                {Len(ev.movements)}
          [] match.pattern_id = "peel_chain" ->
                {Len(ev.transaction_hashes), Len(ev.peel_amounts)}

\* C26 (stated as claimed): every list inside the evidence of any match
\* (transaction hashes, addresses, amounts, movements) has at most 10
\* entries.
C26_EvidenceListsAtMostTen ==
    PatternsReturned =>
        \A k \in 1..Len(detected_patterns) :
            \A n \in EvidenceLengths(detected_patterns[k]) : n <= 10

\* analyze_timeline has returned its result
TimelineReturned ==
    /\ pc \in {"second_call", "detect_done"}
    /\ "analyze_timeline" \notin raised

\* the numbers of a sequence in ascending order
RECURSIVE Ascending(_)
Ascending(ns) ==
    IF ns = <<>> THEN <<>>
    ELSE LET sorted == Ascending(Tail(ns))
             k == Cardinality({i \in 1..Len(sorted) : sorted[i] < Head(ns)})
         IN  SubSeq(sorted, 1, k) \o <<Head(ns)>> \o SubSeq(sorted, k + 1, Len(sorted))

\* the timestamps of the transactions that have one, in chronological order
ChronologicalTimes ==
    LET dated == WithTimestamp(transactions)
    IN  Ascending([i \in 1..Len(dated) |-> dated[i].timestamp])

\* the number of transactions in the periods before the k-th
CountBefore(periods, k) ==
    SumSeq([j \in 1..(k - 1) |-> periods[j].transaction_count])

\* C29: the activity periods partition the timestamped transactions in
\* chronological order into maximal runs: inside a period every gap between
\* consecutive transactions is <= 3600 seconds, the gap between the last
\* transaction of a period and the first of the next is > 3600 seconds, and
\* the periods' transaction_count values sum to the number of timestamped
\* transactions.
C29_PeriodsAreMaximalRuns ==
    TimelineReturned =>
        LET periods == timeline.activity_periods
            times == ChronologicalTimes
        IN  /\ CountBefore(periods, Len(periods) + 1) = Len(times)
            /\ \A k \in 1..Len(periods) :
                  LET lo == CountBefore(periods, k) + 1
                      hi == CountBefore(periods, k + 1)
                  IN  /\ periods[k].transaction_count >= 1
                      /\ hi <= Len(times)
                      /\ periods[k].start_time = times[lo]
                      /\ periods[k].end_time = times[hi]
                      /\ \A i \in lo..(hi - 1) : times[i + 1] - times[i] <= Hour
                      /\ k < Len(periods) => times[hi + 1] - times[hi] > Hour

\* C29 witness: a list that is not in chronological order and has a
\* transaction without timestamp was split into several periods, one of
\* them with several transactions.
C29_Witness ==
    /\ TimelineReturned
    /\ Len(timeline.activity_periods) >= 2
    /\ \E k \in 1..Len(timeline.activity_periods) :
          timeline.activity_periods[k].transaction_count >= 2
    /\ \E i \in 1..Len(transactions) : transactions[i].ts_form = "missing"
    /\ \E i \in 1..(Len(transactions) - 1) :
          /\ transactions[i].ts_form # "missing"
          /\ transactions[i + 1].ts_form # "missing"
          /\ transactions[i].timestamp > transactions[i + 1].timestamp

HoursOfDay == {(transactions[i].timestamp \div Hour) % 24 : i \in 1..Len(transactions)}

NightShare ==
    Cardinality({i \in 1..Len(transactions) :
                    (transactions[i].timestamp \div Hour) % 24 \in 1..5})

TimeAnomalies ==
    {k \in 1..Len(detected_anomalies) : detected_anomalies[k].type = "time_pattern_anomaly"}

\* C25 (stated as claimed): the time-pattern test returns exactly one
\* time_pattern_anomaly if and only if the transactions cover at least 6
\* distinct hours of day and the fraction of them in hours 1 to 5 is
\* strictly greater than 0.4; otherwise it returns none.
C25_TimeAnomalyIffNightShare ==
    AnomaliesReturned =>
        Cardinality(TimeAnomalies) =
            IF /\ Cardinality(HoursOfDay) >= 6
               /\ 10 * NightShare > 4 * Len(transactions)
            THEN 1 ELSE 0

\* C12: the amount-anomaly test returns the empty list whenever fewer than
\* 10 transactions are supplied and whenever all amounts are identical; it
\* returns in every case, also when timestamps are missing.
C12_AmountTestEmptyOnSmallOrUniform ==
    AmountTestDone =>
        ((Len(transactions) < 10 \/ AllAmountsIdentical) => amount_anomalies = <<>>)

\* C12 witness: the amount test has run on 12 transfers of one and the same
\* amount, and on other inputs it does report anomalies.
C12_Witness ==
    /\ AmountTestDone
    /\ Len(transactions) = 12
    /\ AllAmountsIdentical
    /\ amount_anomalies = <<>>

\* C12 witness of the other case: 9 transfers, one of them 30 times the
\* others, have been tested.
C12_WitnessFewTransactions ==
    /\ AmountTestDone
    /\ Len(transactions) = 9
    /\ ~AllAmountsIdentical
    /\ amount_anomalies = <<>>

SomeTimestampMissing ==
    \E i \in 1..Len(transactions) : transactions[i].ts_form = "missing"

\* C14 (stated as claimed): when a transaction has no timestamp,
\* detect_patterns, detect_anomalies and analyze_timeline all return instead
\* of raising.
C14_MissingTimestampNeverAborts ==
    (pc = "detect_done" /\ SomeTimestampMissing) => raised = {}

\* position of a pattern id in the catalog
CatalogIndex(id) == CHOOSE k \in 1..Len(patterns) : patterns[k].id = id

\* C17: detect_patterns returns at most one match per pattern id, and the
\* matches are in catalog order.
C17_OneMatchPerPatternInCatalogOrder ==
    PatternsReturned =>
        /\ \A k \in 1..Len(patterns) : Cardinality(MatchesOf(patterns[k].id)) <= 1
        /\ \A k, l \in 1..Len(detected_patterns) :
              k < l => CatalogIndex(detected_patterns[k].pattern_id)
                           < CatalogIndex(detected_patterns[l].pattern_id)

\* C17 witness: detect_patterns has returned two or more matches.
C17_Witness ==
    /\ PatternsReturned
    /\ Len(detected_patterns) >= 2

\* C18: every match carries a pattern_id and a confidence with
\* 0 <= confidence <= 1.
C18_ConfidenceInUnitInterval ==
    PatternsReturned =>
        \A k \in 1..Len(detected_patterns) :
            /\ {"pattern_id", "confidence"} \subseteq DOMAIN detected_patterns[k]
            /\ detected_patterns[k].pattern_id \in {patterns[i].id : i \in 1..Len(patterns)}
            /\ 0 <= detected_patterns[k].confidence
            /\ detected_patterns[k].confidence <= ConfScale

\* C18 witness: a returned list has a match whose confidence was capped at
\* 1.0 by min() and a match with a confidence strictly between 0 and 1.
C18_Witness ==
    /\ PatternsReturned
    /\ \E k \in 1..Len(detected_patterns) :
          /\ detected_patterns[k].pattern_id = "circular_trading"
          /\ detected_patterns[k].confidence = ConfScale
    /\ \E k \in 1..Len(detected_patterns) :
          /\ 0 < detected_patterns[k].confidence
          /\ detected_patterns[k].confidence < ConfScale

\* C19 (stated as claimed): every anomaly that detect_anomalies returns has
\* an 'anomaly_type' field and a severity in {low, medium, high}.
C19_AnomalyTypeAndSeverity ==
    AnomaliesReturned =>
        \A k \in 1..Len(detected_anomalies) :
            /\ "anomaly_type" \in DOMAIN detected_anomalies[k]
            /\ detected_anomalies[k].severity \in {"low", "medium", "high"}

\* Orders in which the catalog's detectors can be evaluated: the catalog
\* order, its reverse, and every rotation of the two
EvalOrders ==
    LET n == Len(patterns)
    IN  {[k \in 1..n |-> ((k + r - 1) % n) + 1] : r \in 0..(n - 1)}
        \cup {[k \in 1..n |-> ((n - k + r) % n) + 1] : r \in 0..(n - 1)}

C6_Deterministic ==
    pc = "detect_done" =>
        /\ second_run.patterns = detected_patterns
        /\ second_run.anomalies = detected_anomalies

\* The mixers of the catalog, case-folded
FoldedMixers == {TornadoALower, TornadoBLower}

\* indices of the transactions touching a mixer after case folding
MixerTouching ==
    {i \in 1..Len(transactions) :
        lower(transactions[i].from) \in FoldedMixers
        \/ lower(transactions[i].to) \in FoldedMixers}

RECURSIVE SumOver(_, _)
SumOver(S, f) ==
    IF S = {} THEN 0
    ELSE LET x == CHOOSE y \in S : TRUE IN f[x] + SumOver(S \ {x}, f)

\* C7: if some transaction touches a known mixer (after case folding),
\* detect_patterns returns exactly one mixing match, with confidence 1.0 and
\* total_amount the sum of the values of exactly the mixer transactions; if
\* none does, it returns no mixing match.
C7_MixingExactlyOnce ==
    PatternsReturned =>
        IF MixerTouching = {} THEN MatchesOf("mixing") = {}
        ELSE /\ Cardinality(MatchesOf("mixing")) = 1
             /\ \A k \in MatchesOf("mixing") :
                   /\ detected_patterns[k].confidence = ConfScale
                   /\ detected_patterns[k].total_amount =
                        SumOver(MixerTouching,
                                [i \in 1..Len(transactions) |-> transactions[i].value])

\* C7 witness: a list with two mixer transactions, one of them naming the
\* mixer in mixed case, and an unrelated transaction has been analysed.
C7_Witness ==
    /\ PatternsReturned
    /\ Cardinality(MixerTouching) = 2
    /\ Len(transactions) = 3
    /\ \E i \in MixerTouching : transactions[i].to = TornadoA
    /\ MatchesOf("mixing") # {}

\* The chains of h transactions of the list that leave the start address and
\* visit pairwise distinct addresses (as sequences of list positions)
RECURSIVE SimpleChains(_, _, _)
SimpleChains(txs, start, h) ==
    IF h = 1
    THEN {<<i>> : i \in {j \in 1..Len(txs) :
                            /\ lower(txs[j].from) = lower(start)
                            /\ lower(txs[j].to) # lower(start)}}
    ELSE {Append(c, j) : <<c, j>> \in
            {x \in SimpleChains(txs, start, h - 1) \X (1..Len(txs)) :
                /\ lower(txs[x[2]].from) = lower(txs[x[1][h - 1]].to)
                /\ lower(txs[x[2]].to) # lower(start)
                /\ \A i \in 1..(h - 1) : lower(txs[x[1][i]].to) # lower(txs[x[2]].to)}}

\* The cycles of h transactions of the list that leave the target address,
\* visit pairwise distinct addresses and return to it with their last
\* transaction (as sequences of list positions)
SimpleCycles(h) ==
    {Append(x[1], x[2]) : x \in
        {y \in SimpleChains(transactions, address, h - 1) \X (1..Len(transactions)) :
            /\ lower(transactions[y[2]].from) = lower(transactions[y[1][h - 1]].to)
            /\ lower(transactions[y[2]].to) = lower(address)}}

\* C22 (stated as claimed): a cycle of h hops (3 <= h <= 10) that leaves the
\* target address and returns to it with its last edge, first and last
\* transaction at most 48 hours apart, yields a circular_trading match with
\* cycle_length h and confidence min(h / 6, 1.0).
C22_CycleDetected ==
    PatternsReturned =>
        \A h \in 3..10 :
            (\E c \in SimpleCycles(h) :
                /\ \A i \in 1..h : transactions[c[i]].ts_form # "missing"
                /\ transactions[c[h]].timestamp - transactions[c[1]].timestamp <= 2 * Day)
            => \E k \in MatchesOf("circular_trading") :
                  /\ detected_patterns[k].cycle_length = h
                  /\ detected_patterns[k].confidence = Min(h * (ConfScale \div 6), ConfScale)

\* C8 (stated as claimed): a chain of h >= 5 hops (h <= 10) leaving the
\* target address, with pairwise distinct addresses and at most 24 hours
\* between its first and last transaction, yields a layering match with
\* confidence min(h / 10, 1.0).
C8_LayeringDetected ==
    PatternsReturned =>
        \A h \in 5..10 :
            (\E c \in SimpleChains(transactions, address, h) :
                transactions[c[h]].timestamp - transactions[c[1]].timestamp <= Day)
            => \E k \in MatchesOf("layering") :
                  detected_patterns[k].confidence = Min(h * (ConfScale \div 10), ConfScale)

\* outgoing transactions of the target address (list positions)
Outgoing == {i \in 1..Len(transactions) : lower(transactions[i].from) = lower(address)}

\* the outgoing transactions of the target address with an amount in
\* [0.9 x threshold, threshold), threshold 10.0 (list positions)
NearThreshold ==
    {i \in Outgoing : /\ 9 * (10 * ValueScale) <= 10 * transactions[i].value
                      /\ transactions[i].value < 10 * ValueScale}

\* C23 (stated as claimed): with at least 3 outgoing transactions of amount
\* in [0.9 x threshold, threshold) inside a 7-day window, whatever else the
\* list holds, detect_patterns returns a structuring match with confidence
\* min(count / 5, 1.0), count being the number of such transactions in the
\* window or in the list; with fewer than 3 such transactions it returns no
\* structuring match.
C23_StructuringInWindow ==
    PatternsReturned =>
        /\ (\E W \in SUBSET NearThreshold :
                /\ Cardinality(W) >= 3
                /\ \A i, j \in W :
                      transactions[i].timestamp - transactions[j].timestamp <= 7 * Day)
            => \E k \in MatchesOf("structuring") :
                  \E n \in 3..Cardinality(NearThreshold) :
                      detected_patterns[k].confidence = Min(n * (ConfScale \div 5), ConfScale)
        /\ Cardinality(NearThreshold) < 3 => MatchesOf("structuring") = {}

\* coefficient of variation < 0.3 of the amounts at positions S (mean > 0),
\* or all amounts zero
LowVariation(S) ==
    LET n == Cardinality(S)
        s1 == SumOver(S, [i \in 1..Len(transactions) |-> transactions[i].value])
        s2 == SumOver(S, [i \in 1..Len(transactions) |->
                              transactions[i].value * transactions[i].value])
    IN  s1 = 0 \/ 100 * (n * s2 - s1 * s1) < 9 * s1 * s1

SmallAmounts(S) == \A i \in S : transactions[i].value < 1 * ValueScale

SmurfMatch(n) ==
    \E k \in MatchesOf("smurfing") :
        /\ detected_patterns[k].confidence = Min(n * (ConfScale \div 20), ConfScale)
        /\ detected_patterns[k].transaction_count = n

\* C9 (stated as claimed): n >= 10 transactions sent by the target address
\* with all timestamps within one hour, each amount < 1.0 and coefficient of
\* variation < 0.3, yield a smurfing match with confidence min(n / 20, 1.0)
\* and transaction_count n.
C9_SmurfingWithinOneHour ==
    PatternsReturned =>
        ((/\ Cardinality(Outgoing) >= 10
          /\ \A i, j \in Outgoing :
                transactions[i].timestamp - transactions[j].timestamp <= Hour
          /\ SmallAmounts(Outgoing)
          /\ LowVariation(Outgoing))
         => SmurfMatch(Cardinality(Outgoing)))

\* the outgoing transactions in the clock hour starting at h
InClockHour(h) ==
    {i \in Outgoing : /\ h <= transactions[i].timestamp
                      /\ transactions[i].timestamp < h + Hour}

ClockHours == {(transactions[i].timestamp \div Hour) * Hour : i \in Outgoing}

QualifyingHour(h) ==
    /\ Cardinality(InClockHour(h)) >= 10
    /\ SmallAmounts(InClockHour(h))
    /\ LowVariation(InClockHour(h))

FirstPosition(S) == CHOOSE i \in S : \A j \in S : i <= j

\* C9 (amended): n >= 10 transactions sent by the target address in one
\* clock-hour bucket (same date and hour), being all it sent in that bucket,
\* each with amount < 1.0 and with coefficient of variation < 0.3, yield a
\* smurfing match; for the first such bucket in list order the match has
\* confidence min(n / 20, 1.0) and transaction_count n.
C9_SmurfingInClockHour ==
    PatternsReturned =>
        \A h \in ClockHours :
            QualifyingHour(h) =>
                /\ MatchesOf("smurfing") # {}
                /\ (\A g \in ClockHours :
                        QualifyingHour(g) =>
                            FirstPosition(InClockHour(h)) <= FirstPosition(InClockHour(g)))
                   => SmurfMatch(Cardinality(InClockHour(h)))

\* C9 witness: exactly 10 small, equal transfers in one clock hour, with a
\* further transfer of the address in the next clock hour, were matched.
C9_Witness ==
    /\ PatternsReturned
    /\ \E h \in ClockHours :
          /\ QualifyingHour(h)
          /\ Cardinality(InClockHour(h)) = 10
          /\ Cardinality(Outgoing) > 10
    /\ SmurfMatch(10)

-----------------------------------------------------------------------------
(* Claims about RiskScorer *)

Returned(r) == r # NoResult /\ ~r.raised

\* C1: for every transaction list, pattern list and anomaly list passed to
\* calculate_risk_score, the returned risk_score lies in [0, 100].
C1_RiskScoreInRange ==
    (pc = "risk_done" /\ Returned(risk_assessment)) =>
        /\ risk_assessment.risk_score >= 0
        /\ risk_assessment.risk_score <= 100 * ScoreScale

\* C1 witness: a call with patterns, anomalies and transactions has returned
\* a score strictly inside the range.
C1_Witness ==
    /\ pc = "risk_done"
    /\ Returned(risk_assessment)
    /\ transactions # <<>>
    /\ detected_patterns # <<>>
    /\ detected_anomalies # <<>>
    /\ risk_assessment.risk_score > 50 * ScoreScale

\* C2 (stated as claimed): the returned risk_level is the bucket of the
\* returned risk_score under the breakpoints 80 / 60 / 40 / 20.
C2_LevelIsBucketOfReturnedScore ==
    (pc = "risk_done" /\ Returned(risk_assessment)) =>
        risk_assessment.risk_level =
            determine_risk_level(risk_assessment.risk_score, ScoreScale)

\* sum of the five breakdown contributions, in 1/TotalScale point
ContributionSum(r) ==
    r.breakdown.pattern_risk.contribution + r.breakdown.anomaly_risk.contribution
    + r.breakdown.counterparty_risk.contribution
    + r.breakdown.volume_risk.contribution + r.breakdown.age_risk.contribution

Factors == {"pattern_risk", "anomaly_risk", "counterparty_risk", "volume_risk", "age_risk"}

\* each factor score lies in [0, 100], each contribution is score x weight,
\* and the weights are 0.35, 0.25, 0.20, 0.10, 0.10 (sum 1.0)
BreakdownWellFormed(r) ==
    /\ \A f \in Factors :
          /\ r.breakdown[f].score >= 0
          /\ r.breakdown[f].score <= 100 * ScoreScale
          /\ r.breakdown[f].contribution = r.breakdown[f].score * r.breakdown[f].weight
    /\ r.breakdown.pattern_risk.weight * 100 = 35 * 20
    /\ r.breakdown.anomaly_risk.weight * 100 = 25 * 20
    /\ r.breakdown.counterparty_risk.weight * 100 = 20 * 20
    /\ r.breakdown.volume_risk.weight * 100 = 10 * 20
    /\ r.breakdown.age_risk.weight * 100 = 10 * 20

\* C11 (stated as claimed): the returned risk_score equals the sum of the
\* five breakdown contributions score x weight, each score lies in [0, 100]
\* and the weights are 0.35, 0.25, 0.20, 0.10, 0.10.
C11_ScoreIsWeightedSum ==
    (pc = "risk_done" /\ Returned(risk_assessment)) =>
        /\ BreakdownWellFormed(risk_assessment)
        /\ risk_assessment.risk_score * (TotalScale \div ScoreScale)
              = ContributionSum(risk_assessment)

\* C11 (amended): the returned risk_score is the sum of the five breakdown
\* contributions score x weight rounded to two decimals (it differs from the
\* sum by at most 0.005), each score lies in [0, 100] and the weights are
\* 0.35, 0.25, 0.20, 0.10, 0.10.
C11_ScoreIsRoundedWeightedSum ==
    (pc = "risk_done" /\ Returned(risk_assessment)) =>
        /\ BreakdownWellFormed(risk_assessment)
        /\ LET d == risk_assessment.risk_score * (TotalScale \div ScoreScale)
                      - ContributionSum(risk_assessment)
           IN  -10 <= d /\ d <= 10

\* C11 witness: an assessment was returned whose weighted sum is not a
\* whole number of hundredths, so the rounding acted.
C11_Witness ==
    /\ pc = "risk_done"
    /\ Returned(risk_assessment)
    /\ ContributionSum(risk_assessment) % (TotalScale \div ScoreScale) # 0
    /\ risk_assessment.breakdown.pattern_risk.score > 0

HasMixing(ps) ==
    \E i \in 1..Len(ps) :
        /\ ps[i].pattern_id = "mixing"
        /\ ps[i].risk_level = "critical"
        /\ ps[i].confidence = ConfScale

\* C13: when the detected patterns include a mixing match (critical,
\* confidence 1.0) the pattern sub-score is at least 50 and the pattern_risk
\* contribution at least 17.5, whatever other patterns are in the list.
C13_MixingFloorsPatternRisk ==
    (pc = "risk_done" /\ Returned(risk_assessment) /\ HasMixing(detected_patterns)) =>
        /\ risk_assessment.breakdown.pattern_risk.score >= 50 * ScoreScale
        /\ risk_assessment.breakdown.pattern_risk.score <= 100 * ScoreScale
        /\ 10 * risk_assessment.breakdown.pattern_risk.contribution >= 175 * TotalScale

\* C13 witness: an assessment was returned for a list holding a mixing
\* match and one more pattern, with the pattern sub-score below the cap.
C13_Witness ==
    /\ pc = "risk_done"
    /\ Returned(risk_assessment)
    /\ HasMixing(detected_patterns)
    /\ Len(detected_patterns) = 2
    /\ risk_assessment.breakdown.pattern_risk.score < 100 * ScoreScale

\* C15 (stated as claimed): for a non-empty transaction list whose
\* timestamps are all ISO-8601 UTC strings calculate_risk_score returns an
\* assessment and does not raise.
C15_IsoTimestampsReturn ==
    (/\ pc = "risk_done"
     /\ transactions # <<>>
     /\ \A i \in 1..Len(transactions) : transactions[i].ts_form = "iso_z") =>
        Returned(risk_assessment)

\* C16 (stated as claimed): two invocations of calculate_risk_score with
\* identical arguments return the same risk_score, risk_level and breakdown,
\* whenever each is made.
C16_PureFunctionOfArguments ==
    (/\ pc = "risk_again_done"
     /\ Returned(risk_assessment)
     /\ Returned(second_run)) =>
        /\ second_run.risk_score = risk_assessment.risk_score
        /\ second_run.risk_level = risk_assessment.risk_level
        /\ second_run.breakdown = risk_assessment.breakdown

\* the transactions whose from or to is a known high-risk address after case
\* folding of both sides (list positions)
TouchingHighRisk ==
    {i \in 1..Len(transactions) :
        \/ lower(transactions[i].from) \in {lower(a) : a \in known_high_risk}
        \/ lower(transactions[i].to) \in {lower(a) : a \in known_high_risk}}

\* C24 (stated as claimed): the counterparty sub-score is 100 x (number of
\* transactions touching a known high-risk address, compared after case
\* folding) / (number of transactions); it is 100 when every transaction
\* touches one and 0 when none does.
C24_CounterpartyScoreIsShare ==
    (/\ pc = "risk_done"
     /\ Returned(risk_assessment)
     /\ transactions # <<>>) =>
        risk_assessment.breakdown.counterparty_risk.score =
            RoundHalfEven(Cardinality(TouchingHighRisk) * 100 * ScoreScale,
                          Len(transactions))

\* C10 (stated as claimed, RiskScorer part): with no transactions, no
\* patterns and no anomalies the assessment is the neutral 50 / medium.
C10_EmptyIsNeutral ==
    (/\ pc = "risk_done"
     /\ transactions = <<>>
     /\ detected_patterns = <<>>
     /\ detected_anomalies = <<>>) =>
        /\ Returned(risk_assessment)
        /\ risk_assessment.risk_score = 50 * ScoreScale
        /\ risk_assessment.risk_level = "medium"

-----------------------------------------------------------------------------
(* The narrative endpoint  (src/backend/app/api/v1/analysis.py)              *)
(* A text built by an f-string is the pair of its format and the values put *)
(* into it.  The Japanese literals of the source are written as "ja: " and  *)
(* their English meaning.                                                   *)

MaxApiTxs == 4

Fmt(text, args) == [text |-> text, args |-> args]

NoHistoryEn == "No transaction history"

NoHistoryJa == "ja: no transaction history"

NoTransactionsEn ==
    "No transactions were found for the investigation target address ({address}) during the analysis period."

NoTransactionsJa ==
    "ja: no transactions were confirmed for the investigation target address ({address}) during the analysis period."

\* an emptiness test that never finds the list empty
NoTransactionsIgnored(txs) == FALSE

\* "if not transactions:"
no_transactions(txs) == txs = <<>>

\* the response of the early return for an address without transactions
empty_response(addr, lang) ==
    [status |-> 200,
     address |-> addr,
     language |-> lang,
     narrative |-> IF lang = "ja" THEN Fmt(NoTransactionsJa, <<addr>>)
                   ELSE Fmt(NoTransactionsEn, <<addr>>),
     key_findings |-> IF lang = "ja" THEN <<Fmt(NoHistoryJa, <<>>)>>
                      ELSE <<Fmt(NoHistoryEn, <<>>)>>,
     timeline |-> <<>>]

\* HTTPException(status_code=500)
ServerError == [status |-> 500]

\* NarrativeGenerator.generate_narrative: the sections joined; a language
\* other than ja / en is replaced by ja
\* _generate_anomaly_narratives: a header, then one description for every
\* anomaly whose "anomaly_type" is "amount" or "time"; amount and hour are
\* read from anomaly["details"], 0 when absent
generate_anomaly_narratives(anomalies, lang) ==
    LET anomaly_type(a) == IF "anomaly_type" \in DOMAIN a THEN a.anomaly_type ELSE ""
        amount(a) == IF "details" \in DOMAIN a THEN a.details.amount ELSE 0
        hour(a) == IF "details" \in DOMAIN a THEN a.details.hour ELSE 0
        described(a) == anomaly_type(a) \in {"amount", "time"}
        hits == FilterSeq(anomalies, described)
    IN  IF anomalies = <<>> THEN [header |-> "", narratives |-> <<>>]
        ELSE [header |-> IF lang = "ja" THEN "ja: [Detected Anomalies]"
                         ELSE "[Detected Anomalies]",
              narratives |->
                  [i \in 1..Len(hits) |->
                      IF anomaly_type(hits[i]) = "amount"
                      THEN Fmt("A transaction of {amount:.4f} ETH ... was detected",
                               <<amount(hits[i])>>)
                      ELSE Fmt("Abnormal transaction activity ... ({hour}:00)",
                               <<hour(hits[i])>>)]]

\* _generate_risk_assessment: the values substituted into the template;
\* the level is risk_assessment.get("risk_level", "medium"), the score
\* risk_assessment.get("total_score", 0), the pattern the first one of
\* highest confidence
generate_risk_assessment(assessment, found, lang) ==
    LET risk_level == IF "risk_level" \in DOMAIN assessment
                      THEN assessment.risk_level ELSE "medium"
        risk_score == IF "total_score" \in DOMAIN assessment
                      THEN assessment.total_score ELSE 0
        primary == CHOOSE k \in 1..Len(found) :
                       /\ \A j \in 1..Len(found) :
                             found[j].confidence <= found[k].confidence
                       /\ \A j \in 1..(k - 1) :
                             found[j].confidence < found[k].confidence
    IN  [pattern_name |-> IF found = <<>> THEN "unknown"
                          ELSE found[primary].pattern_id,
         confidence |-> IF found = <<>> THEN 0
                        ELSE RoundHalfEven(found[primary].confidence * 100, ConfScale),
         risk_level |-> risk_level,
         risk_score |-> risk_score]

\* NarrativeGenerator.generate_narrative: the sections joined; a language
\* other than ja / en is replaced by ja
generated_narrative(found, anomalies, assessment, lang) ==
    LET used == IF lang \in {"ja", "en"} THEN lang ELSE "ja"
    IN  [text |-> "sections",
         language |-> used,
         anomaly_section |-> generate_anomaly_narratives(anomalies, used),
         risk_statement |-> generate_risk_assessment(assessment, found, used)]

\* "Extract key findings": one line per pattern (the match has no name_en /
\* name_ja key, so the name is empty), one per anomaly of the first three,
\* the overall risk line
key_findings_of(found, anomalies, assessment, lang) ==
    [k \in 1..Len(found) |->
        Fmt(IF lang = "ja" THEN "ja: {name_ja}: confidence {confidence:.0f}%"
            ELSE "{name_en}: {confidence:.0f}% confidence",
            <<"", RoundHalfEven(found[k].confidence * 100, ConfScale)>>)]
    \o [k \in 1..Min(Len(anomalies), 3) |->
        Fmt(IF lang = "ja" THEN "ja: anomaly detected: {description_ja}"
            ELSE "Anomaly: {description_en}",
            <<anomalies[k].type>>)]
    \o << Fmt(IF lang = "ja" THEN "ja: overall risk: {risk_level} ({risk_score:.1f}/100)"
              ELSE "Overall Risk: {risk_level} ({risk_score:.1f}/100)",
              <<assessment.risk_level, assessment.risk_score>>) >>

\* "Build timeline from transactions": first transaction, the events of the
\* first two patterns that carry matched_transactions (no match does), last
\* transaction when there is more than one
timeline_of(txs, lang) ==
    LET sorted_txs == sort_by_timestamp(txs)
        first_tx == sorted_txs[1]
        last_tx == sorted_txs[Len(sorted_txs)]
    IN  (IF sorted_txs # <<>>
         THEN << [timestamp |-> first_tx.timestamp,
                  event |-> IF lang = "en" THEN "First transaction"
                            ELSE "ja: first transaction",
                  amount |-> first_tx.value] >>
         ELSE <<>>)
        \o
        (IF Len(sorted_txs) > 1
         THEN << [timestamp |-> last_tx.timestamp,
                  event |-> IF lang = "en" THEN "Latest transaction"
                            ELSE "ja: latest transaction",
                  amount |-> last_tx.value] >>
         ELSE <<>>)

\* What the explorer can hold for 0xaaa, as _format_transactions returns it:
\* lower-case addresses, datetime timestamps
ApiTxs ==
    { Tx("0xa1", "0xaaa", TornadoALower, 100, 2 * Day, "datetime"),
      Tx("0xa2", "0xbbb", "0xaaa", 200, 2 * Day + Hour, "datetime"),
      Tx("0xa3", "0xaaa", "0xccc", 300, 2 * Day + Hour + 120, "datetime"),
      Tx("0xa4", "0xaaa", "0xddd", 5000, 2 * Day + 6 * Hour, "datetime") }

\* "sort": "desc": most recent first
MaxOutlierTxs == 11

\* n payments of 0xaaa, one a day, most recent first: the oldest of 1.0,
\* every other one of 0.03
OutlierFetch(n) ==
    [i \in 1..n |->
        Tx(HashNames[i], "0xaaa", Recipients[i],
           IF i = n THEN 1000 ELSE 30, (n + 2 - i) * Day + 10 * Hour, "datetime")]

ApiFetches ==
    {l \in DistinctSeqs(ApiTxs, MaxApiTxs) :
        \A i \in 1..(Len(l) - 1) : l[i].timestamp > l[i + 1].timestamp}
    \cup {OutlierFetch(n) : n \in 10..MaxOutlierTxs}

ApiInit ==
    /\ pc = "api_call"
    /\ address \in {"0xaaa", "0xAAA"}
    /\ language \in {"en", "ja", "fr"}
    /\ now \in RiskNows
    /\ transactions = <<>>
    /\ detected_patterns = <<>>
    /\ detected_anomalies = <<>>
    /\ risk_assessment = NoResult
    /\ max_hops = 0
    /\ max_paths = 0
    /\ queue = <<>>
    /\ chains = <<>>
    /\ visited_paths = {}
    /\ explored = 0
    /\ second_run = NoResult
    /\ api_response = NoResult
    /\ raised = {}
    /\ calls = {}
    /\ amount_anomalies = <<>>
    /\ timeline = NoResult
    /\ minute_requests = <<>>
    /\ hour_requests = <<>>
    /\ dispatch_log = <<>>
    /\ in_flight = {}

ApiFrame ==
    UNCHANGED <<minute_requests, hour_requests, dispatch_log, in_flight,
                address, language, now, max_hops, max_paths, queue, chains,
                visited_paths, explored, second_run, amount_anomalies, timeline>>

\* POST /narrative, generate_narrative(request): the fetch fails, or returns
\* no transaction, or returns a list that goes through the detectors, the
\* scorer and the generator; every exception becomes a 500 response
GenerateNarrative ==
    /\ pc = "api_call"
    /\ \/ /\ transactions' = <<>>
          /\ calls' = {"get_address_transactions"}
          /\ raised' = {"get_address_transactions"}
          /\ api_response' = ServerError
          /\ UNCHANGED <<detected_patterns, detected_anomalies, risk_assessment>>
       \/ \E fetched \in ApiFetches :
             /\ transactions' = fetched
             /\ IF no_transactions(fetched)
                THEN /\ calls' = {"get_address_transactions"}
                     /\ raised' = {}
                     /\ api_response' = empty_response(address, language)
                     /\ UNCHANGED <<detected_patterns, detected_anomalies,
                                    risk_assessment>>
                ELSE \E order \in SetOrders(mixing_set(patterns, fetched)) :
                     LET patterns_raise == detect_patterns_raises(fetched, address)
                         anomalies_raise == detect_anomalies_raises(fetched, address)
                     IN  /\ detected_patterns' =
                                IF patterns_raise THEN <<>>
                                ELSE detect_patterns(fetched, address, order)
                         /\ detected_anomalies' =
                                IF patterns_raise \/ anomalies_raise THEN <<>>
                                ELSE detect_anomalies(fetched, address)
                         /\ risk_assessment' =
                                IF patterns_raise \/ anomalies_raise THEN NoResult
                                ELSE calculate_risk_score(address, fetched,
                                         detected_patterns', detected_anomalies', now)
                         /\ raised' =
                                IF patterns_raise THEN {"detect_patterns"}
                                ELSE IF anomalies_raise THEN {"detect_anomalies"}
                                ELSE IF risk_assessment' = Raised
                                     THEN {"calculate_risk_score"}
                                ELSE {}
                         /\ calls' =
                                {"get_address_transactions", "detect_patterns"}
                                \cup (IF patterns_raise THEN {}
                                      ELSE {"detect_anomalies"})
                                \cup (IF patterns_raise \/ anomalies_raise THEN {}
                                      ELSE {"calculate_risk_score"})
                                \cup (IF raised' # {} THEN {}
                                      ELSE {"generate_narrative"})
                         /\ api_response' =
                                IF raised' # {} THEN ServerError
                                ELSE [status |-> 200,
                                      address |-> address,
                                      language |-> language,
                                      narrative |->
                                          generated_narrative(detected_patterns',
                                              detected_anomalies', risk_assessment',
                                              language),
                                      key_findings |->
                                          key_findings_of(detected_patterns',
                                              detected_anomalies', risk_assessment',
                                              language),
                                      timeline |-> timeline_of(fetched, language)]
    /\ pc' = "api_done"
    /\ ApiFrame

ApiNext == GenerateNarrative

SpecApi == ApiInit /\ [][ApiNext]_vars

-----------------------------------------------------------------------------
(* Claims about the narrative endpoint *)

Detectors == {"detect_patterns", "detect_anomalies", "calculate_risk_score",
              "generate_narrative"}

AmountAnomaliesFound ==
    {k \in 1..Len(detected_anomalies) : detected_anomalies[k].type = "amount_anomaly"}

\* C28 (stated as claimed): the risk score and risk level substituted into
\* the narrative's risk statement are the risk_score and risk_level of the
\* assessment that calculate_risk_score produced for the same call, and the
\* narrative's anomaly section contains one description per detected amount
\* anomaly.
C28_NarrativeCarriesAssessment ==
    (pc = "api_done" /\ raised = {} /\ transactions # <<>>) =>
        /\ api_response.narrative.risk_statement.risk_score =
              risk_assessment.risk_score
        /\ api_response.narrative.risk_statement.risk_level =
              risk_assessment.risk_level
        /\ Len(api_response.narrative.anomaly_section.narratives) =
              Cardinality(AmountAnomaliesFound)

\* C20: when the fetched transaction list is empty, the narrative operation
\* returns, without running any detector, the narrative that no transactions
\* were found for the address, key_findings equal to exactly
\* ["No transaction history"] for language 'en' (the single Japanese
\* equivalent for 'ja'), and an empty timeline.
C20_EmptyFetchShortCircuits ==
    (pc = "api_done" /\ raised = {} /\ transactions = <<>>) =>
        /\ api_response.status = 200
        /\ calls \cap Detectors = {}
        /\ api_response.timeline = <<>>
        /\ language = "en" =>
              /\ api_response.key_findings = <<Fmt(NoHistoryEn, <<>>)>>
              /\ api_response.narrative = Fmt(NoTransactionsEn, <<address>>)
        /\ language = "ja" =>
              /\ api_response.key_findings = <<Fmt(NoHistoryJa, <<>>)>>
              /\ api_response.narrative = Fmt(NoTransactionsJa, <<address>>)

\* C20 witness: an English request for an address without transactions has
\* been answered.
C20_Witness ==
    /\ pc = "api_done"
    /\ raised = {}
    /\ transactions = <<>>
    /\ language = "en"
    /\ api_response.status = 200
    /\ Len(api_response.key_findings) = 1

-----------------------------------------------------------------------------
(* RateLimitMiddleware  (src/backend/app/middleware/security.py)            *)
(* dispatch runs on the event loop: from _get_client_id to the two appends  *)
(* there is no await, so that part of a call is one step; the call then     *)
(* waits in call_next while other calls are dispatched.  now is what        *)
(* datetime.utcnow() returns, in seconds.                                    *)

\* requests_per_minute and requests_per_hour of the middleware, scaled
requests_per_minute == 2
requests_per_hour == 3

MaxRequests == 6
MaxInFlight == 2

Minute == 60

\* _get_client_id(request): the client identifiers of the requests
Clients == {"user_1", "10.0.0.7"}

\* the instants at which requests arrive
Instants == {0, 30, Minute, Hour + 30}

\* "t for t in entries if t > oldest"
newer_than(entries, oldest) ==
    LET keep(t) == t > oldest
    IN  FilterSeq(entries, keep)

\* a limit that lets one request more through
LimitReachedLate(count, limit) == count > limit

\* "minute_count >= self.requests_per_minute" / "hour_count >= ..."
limit_reached(count, limit) == count >= limit

\* _clean_old_entries(client_id, current_time), as the pair of lists
clean_old_entries(client_id, current_time) ==
    [minute |-> newer_than(minute_requests[client_id], current_time - Minute),
     hour |-> newer_than(hour_requests[client_id], current_time - Hour)]

\* the JSONResponse of a rejected request
TooManyRequests(retry_after) == [status |-> 429, retry_after |-> retry_after]

RateInit ==
    /\ pc = "serving"
    /\ now = 0
    /\ minute_requests = [c \in Clients |-> <<>>]
    /\ hour_requests = [c \in Clients |-> <<>>]
    /\ dispatch_log = <<>>
    /\ in_flight = {}
    /\ api_response = NoResult
    /\ address = "0xaaa"
    /\ transactions = <<>>
    /\ detected_patterns = <<>>
    /\ detected_anomalies = <<>>
    /\ risk_assessment = NoResult
    /\ max_hops = 0
    /\ max_paths = 0
    /\ queue = <<>>
    /\ chains = <<>>
    /\ visited_paths = {}
    /\ explored = 0
    /\ second_run = NoResult
    /\ language = "en"
    /\ raised = {}
    /\ calls = {}
    /\ amount_anomalies = <<>>
    /\ timeline = NoResult

RateFrame ==
    UNCHANGED <<pc, address, transactions, detected_patterns, detected_anomalies,
                risk_assessment, max_hops, max_paths, queue, chains,
                visited_paths, explored, second_run, language, raised, calls,
                amount_anomalies, timeline>>

\* time passes between two calls
Tick ==
    /\ \E t \in Instants : t > now /\ now' = t
    /\ UNCHANGED <<minute_requests, hour_requests, dispatch_log, in_flight,
                   api_response>>
    /\ RateFrame

\* dispatch(request, call_next) up to "await call_next(request)": the lists
\* of the client are cleaned, then the request is rejected or recorded
Dispatch ==
    /\ Len(dispatch_log) < MaxRequests
    /\ Cardinality(in_flight) < MaxInFlight
    /\ \E client_id \in Clients :
          LET current_time == now
              cleaned == clean_old_entries(client_id, current_time)
              minute_count == Len(cleaned.minute)
              hour_count == Len(cleaned.hour)
              entry(admitted) == [client |-> client_id, time |-> current_time,
                                  admitted |-> admitted]
          IN  IF limit_reached(minute_count, requests_per_minute)
              THEN /\ minute_requests' = [minute_requests EXCEPT ![client_id] = cleaned.minute]
                   /\ hour_requests' = [hour_requests EXCEPT ![client_id] = cleaned.hour]
                   /\ api_response' = TooManyRequests(Minute)
                   /\ dispatch_log' = Append(dispatch_log, entry(FALSE))
                   /\ UNCHANGED in_flight
              ELSE IF limit_reached(hour_count, requests_per_hour)
              THEN /\ minute_requests' = [minute_requests EXCEPT ![client_id] = cleaned.minute]
                   /\ hour_requests' = [hour_requests EXCEPT ![client_id] = cleaned.hour]
                   /\ api_response' = TooManyRequests(Hour)
                   /\ dispatch_log' = Append(dispatch_log, entry(FALSE))
                   /\ UNCHANGED in_flight
              ELSE /\ minute_requests' =
                         [minute_requests EXCEPT
                             ![client_id] = Append(cleaned.minute, current_time)]
                   /\ hour_requests' =
                         [hour_requests EXCEPT
                             ![client_id] = Append(cleaned.hour, current_time)]
                   /\ in_flight' = in_flight \cup
                         {[client |-> client_id, time |-> current_time,
                           minute_count |-> minute_count, hour_count |-> hour_count]}
                   /\ dispatch_log' = Append(dispatch_log, entry(TRUE))
                   /\ UNCHANGED api_response
    /\ UNCHANGED now
    /\ RateFrame

\* call_next returns for one waiting call: the rate limit headers are set
\* from the counts read before the wait and the response is returned
Respond ==
    /\ \E call \in in_flight :
          /\ in_flight' = in_flight \ {call}
          /\ api_response' =
                [status |-> 200,
                 limit_minute |-> requests_per_minute,
                 remaining_minute |-> requests_per_minute - call.minute_count - 1,
                 limit_hour |-> requests_per_hour,
                 remaining_hour |-> requests_per_hour - call.hour_count - 1]
    /\ UNCHANGED <<now, minute_requests, hour_requests, dispatch_log>>
    /\ RateFrame

RateNext == Tick \/ Dispatch \/ Respond

SpecRateLimit == RateInit /\ [][RateNext]_vars

-----------------------------------------------------------------------------
(* Claims about the rate limiter *)

\* the requests of a client admitted in the window of the given length that
\* ends with the k-th dispatch
AdmittedInWindow(client, k, length) ==
    {j \in 1..Len(dispatch_log) :
        /\ dispatch_log[j].client = client
        /\ dispatch_log[j].admitted
        /\ dispatch_log[j].time > dispatch_log[k].time - length
        /\ dispatch_log[j].time <= dispatch_log[k].time}

\* no window of a minute holds more than requests_per_minute admitted
\* requests of one client, no window of an hour more than requests_per_hour
WindowsWithinLimits ==
    \A k \in 1..Len(dispatch_log) :
        /\ Cardinality(AdmittedInWindow(dispatch_log[k].client, k, Minute))
              <= requests_per_minute
        /\ Cardinality(AdmittedInWindow(dispatch_log[k].client, k, Hour))
              <= requests_per_hour

\* a dispatch leaves the lists of every other client alone, and a rejected
\* one adds nothing to the lists of its own client
DispatchTouchesOwnQuota ==
    Len(dispatch_log') = Len(dispatch_log) + 1 =>
        LET call == dispatch_log'[Len(dispatch_log')]
            own == call.client
        IN  /\ \A other \in Clients \ {own} :
                  /\ minute_requests'[other] = minute_requests[other]
                  /\ hour_requests'[other] = hour_requests[other]
            /\ ~call.admitted =>
                  /\ minute_requests'[own] =
                        newer_than(minute_requests[own], call.time - Minute)
                  /\ hour_requests'[own] =
                        newer_than(hour_requests[own], call.time - Hour)
                  /\ in_flight' = in_flight

\* C30: for each client id, after any sequence and any interleaving of
\* dispatch calls, the requests admitted within any trailing one-minute
\* window never exceed requests_per_minute and within any trailing one-hour
\* window never exceed requests_per_hour; a request rejected with 429 is not
\* recorded and consumes no quota, and one client's requests never affect
\* another client's counters.
C30_PerClientLimitsHold ==
    []WindowsWithinLimits /\ [][DispatchTouchesOwnQuota]_vars

\* C30 witness: a client was rejected by the minute limit and later by the
\* hour limit, and the other client was admitted at the instant of a
\* rejection while a call was still waiting in call_next.
C30_Witness ==
    /\ api_response = TooManyRequests(Hour)
    /\ in_flight # {}
    /\ \E i, j \in 1..Len(dispatch_log) :
          /\ i < j
          /\ ~dispatch_log[i].admitted
          /\ dispatch_log[j].admitted
          /\ dispatch_log[j].client # dispatch_log[i].client
          /\ dispatch_log[j].time = dispatch_log[i].time
          /\ dispatch_log[i].time < Minute

====
